---- MODULE Spec2Model ----
(***************************************************************************)
(* PAM 360-degree manager assessment: scoring and aggregation engine.      *)
(*                                                                         *)
(* The module models                                                       *)
(*   - the two question catalogs (processor.QUESTION_SCHEMA + SCORE_MAP    *)
(*     and main.ASSESSMENT_QUESTIONS),                                     *)
(*   - the two response scorers (processor.process_form_answers and the    *)
(*     inline scorer of main.submit_assessment),                           *)
(*   - the three aggregators (processor.aggregate_manager_scores,          *)
(*     aggregator.update_manager_aggregation and                           *)
(*     main.update_manager_aggregation_saas),                              *)
(*   - the MongoDB collections they read and write, and the background     *)
(*     tasks that run the aggregators, one database call per step.         *)
(*                                                                         *)
(* Conventions.                                                            *)
(*   Text.    A Python str is a sequence of pieces; a piece is a word (a   *)
(*            TLA+ string without whitespace) or SP, one blank.  Two words *)
(*            are never adjacent, so a str has exactly one sequence.       *)
(*   Numbers. A value produced by round(x, 2) is kept as an integer number *)
(*            of hundredths (4.5 is 450).  statistics.mean of integers is  *)
(*            kept as the exact fraction [num, den] it converts to float.  *)
(*   Dicts.   An answer dict is a sequence of <<key, value>> pairs with    *)
(*            distinct keys, in insertion order.  A MongoDB document is a  *)
(*            record; an absent field is absent from its DOMAIN.           *)
(***************************************************************************)
EXTENDS Integers, Sequences, FiniteSets, TLC

(***************************************************************************)
(* Bounds of the model.                                                    *)
(***************************************************************************)
\* calls made over a run: the requests to the two submission handlers and
\* the direct calls of the three aggregators
MaxCalls == 2
\* largest reading of the wall clock
MaxClock == 1
\* extra keys added to a base answer sheet in the scorer specification
MaxExtraKeys == 2
\* largest number of assessments the confidence score is computed for
MaxAssessments == 25

(***************************************************************************)
(* Generic helpers.                                                        *)
(***************************************************************************)
Range(s) == {s[i] : i \in 1..Len(s)}

RECURSIVE SumSeq(_)
SumSeq(s) == IF s = <<>> THEN 0 ELSE s[1] + SumSeq(Tail(s))

RECURSIVE SumSet(_, _)
SumSet(S, f) ==
  IF S = {} THEN 0
  ELSE LET x == CHOOSE y \in S : TRUE IN f[x] + SumSet(S \ {x}, f)

MinOf(S) == CHOOSE x \in S : \A y \in S : x <= y
MaxOf(S) == CHOOSE x \in S : \A y \in S : y <= x

Categories == <<"trusting", "tasking", "tending">>
CategorySet == Range(Categories)
Options == {"Never", "Sometimes", "Always"}

(***************************************************************************)
(* processor.py: the question catalog.                                     *)
(***************************************************************************)
\* the keys of QUESTION_SCHEMA, in the order of the dict
SchemaCodes ==
  <<
    "STR_1", "STR_2", "STR_3", "STR_4", "STR_5", "STR_6", "STR_7", "STR_8",
    "STR_9", "STR_10", "STR_11", "STR_12", "STA_1", "STA_2", "STA_3",
    "STA_4", "STA_5", "STA_6", "STA_7", "STA_8", "STA_9", "STA_10",
    "STA_11", "STA_12", "STE_1", "STE_2", "STE_3", "STE_4", "STE_5",
    "STE_6", "STE_7", "STE_8", "STE_9", "STE_10", "STE_11", "STE_12" >>

\* sorted(QUESTION_SCHEMA.keys()): Python's str order
SortedCodes ==
  <<
    "STA_1", "STA_10", "STA_11", "STA_12", "STA_2", "STA_3", "STA_4",
    "STA_5", "STA_6", "STA_7", "STA_8", "STA_9", "STE_1", "STE_10",
    "STE_11", "STE_12", "STE_2", "STE_3", "STE_4", "STE_5", "STE_6",
    "STE_7", "STE_8", "STE_9", "STR_1", "STR_10", "STR_11", "STR_12",
    "STR_2", "STR_3", "STR_4", "STR_5", "STR_6", "STR_7", "STR_8", "STR_9" >>

QUESTION_SCHEMA(code) ==
  CASE code = "STR_1" -> [segment |-> "STR", type |-> "direct", category |-> "trusting", behavior |-> "Honesty, Dependability & Fairness"]
    [] code = "STR_2" -> [segment |-> "STR", type |-> "reconfirmation", category |-> "trusting", behavior |-> "Honesty, Dependability & Fairness"]
    [] code = "STR_3" -> [segment |-> "STR", type |-> "reverse", category |-> "trusting", behavior |-> "Honesty, Dependability & Fairness"]
    [] code = "STR_4" -> [segment |-> "STR", type |-> "direct", category |-> "trusting", behavior |-> "Task Delegation Without Bias"]
    [] code = "STR_5" -> [segment |-> "STR", type |-> "reconfirmation", category |-> "trusting", behavior |-> "Task Delegation Without Bias"]
    [] code = "STR_6" -> [segment |-> "STR", type |-> "reverse", category |-> "trusting", behavior |-> "Task Delegation Without Bias"]
    [] code = "STR_7" -> [segment |-> "STR", type |-> "direct", category |-> "trusting", behavior |-> "Providing Necessary Support"]
    [] code = "STR_8" -> [segment |-> "STR", type |-> "reconfirmation", category |-> "trusting", behavior |-> "Providing Necessary Support"]
    [] code = "STR_9" -> [segment |-> "STR", type |-> "reverse", category |-> "trusting", behavior |-> "Providing Necessary Support"]
    [] code = "STR_10" -> [segment |-> "STR", type |-> "direct", category |-> "trusting", behavior |-> "Encouraging Open Communication"]
    [] code = "STR_11" -> [segment |-> "STR", type |-> "reconfirmation", category |-> "trusting", behavior |-> "Encouraging Open Communication"]
    [] code = "STR_12" -> [segment |-> "STR", type |-> "reverse", category |-> "trusting", behavior |-> "Encouraging Open Communication"]
    [] code = "STA_1" -> [segment |-> "STA", type |-> "direct", category |-> "tasking", behavior |-> "Defining Roles & Responsibilities"]
    [] code = "STA_2" -> [segment |-> "STA", type |-> "reconfirmation", category |-> "tasking", behavior |-> "Defining Roles & Responsibilities"]
    [] code = "STA_3" -> [segment |-> "STA", type |-> "reverse", category |-> "tasking", behavior |-> "Defining Roles & Responsibilities"]
    [] code = "STA_4" -> [segment |-> "STA", type |-> "direct", category |-> "tasking", behavior |-> "Planning & Organizing"]
    [] code = "STA_5" -> [segment |-> "STA", type |-> "reconfirmation", category |-> "tasking", behavior |-> "Planning & Organizing"]
    [] code = "STA_6" -> [segment |-> "STA", type |-> "reverse", category |-> "tasking", behavior |-> "Planning & Organizing"]
    [] code = "STA_7" -> [segment |-> "STA", type |-> "direct", category |-> "tasking", behavior |-> "Prioritising Tasks"]
    [] code = "STA_8" -> [segment |-> "STA", type |-> "reconfirmation", category |-> "tasking", behavior |-> "Prioritising Tasks"]
    [] code = "STA_9" -> [segment |-> "STA", type |-> "reverse", category |-> "tasking", behavior |-> "Prioritising Tasks"]
    [] code = "STA_10" -> [segment |-> "STA", type |-> "direct", category |-> "tasking", behavior |-> "Monitoring Progress & Providing Assistance"]
    [] code = "STA_11" -> [segment |-> "STA", type |-> "reconfirmation", category |-> "tasking", behavior |-> "Monitoring Progress & Providing Assistance"]
    [] code = "STA_12" -> [segment |-> "STA", type |-> "reverse", category |-> "tasking", behavior |-> "Monitoring Progress & Providing Assistance"]
    [] code = "STE_1" -> [segment |-> "STE", type |-> "direct", category |-> "tending", behavior |-> "Helping Team Members Learn & Improve"]
    [] code = "STE_2" -> [segment |-> "STE", type |-> "reconfirmation", category |-> "tending", behavior |-> "Helping Team Members Learn & Improve"]
    [] code = "STE_3" -> [segment |-> "STE", type |-> "reverse", category |-> "tending", behavior |-> "Helping Team Members Learn & Improve"]
    [] code = "STE_4" -> [segment |-> "STE", type |-> "direct", category |-> "tending", behavior |-> "Creating a Collaborative Environment"]
    [] code = "STE_5" -> [segment |-> "STE", type |-> "reconfirmation", category |-> "tending", behavior |-> "Creating a Collaborative Environment"]
    [] code = "STE_6" -> [segment |-> "STE", type |-> "reverse", category |-> "tending", behavior |-> "Creating a Collaborative Environment"]
    [] code = "STE_7" -> [segment |-> "STE", type |-> "direct", category |-> "tending", behavior |-> "Resolving Conflicts & Fostering Camaraderie"]
    [] code = "STE_8" -> [segment |-> "STE", type |-> "reconfirmation", category |-> "tending", behavior |-> "Resolving Conflicts & Fostering Camaraderie"]
    [] code = "STE_9" -> [segment |-> "STE", type |-> "reverse", category |-> "tending", behavior |-> "Resolving Conflicts & Fostering Camaraderie"]
    [] code = "STE_10" -> [segment |-> "STE", type |-> "direct", category |-> "tending", behavior |-> "Recognising & Rewarding Achievement"]
    [] code = "STE_11" -> [segment |-> "STE", type |-> "reconfirmation", category |-> "tending", behavior |-> "Recognising & Rewarding Achievement"]
    [] code = "STE_12" -> [segment |-> "STE", type |-> "reverse", category |-> "tending", behavior |-> "Recognising & Rewarding Achievement"]

SUBCATEGORY_ORDER(tripod) ==
  CASE tripod = "trusting" -> <<"Honesty, Dependability & Fairness", "Task Delegation Without Bias", "Providing Necessary Support", "Encouraging Open Communication">>
    [] tripod = "tasking" -> <<"Defining Roles & Responsibilities", "Planning & Organizing", "Prioritising Tasks", "Monitoring Progress & Providing Assistance">>
    [] tripod = "tending" -> <<"Helping Team Members Learn & Improve", "Creating a Collaborative Environment", "Resolving Conflicts & Fostering Camaraderie", "Recognising & Rewarding Achievement">>

SchemaCodeSet == Range(SchemaCodes)

(***************************************************************************)
(* processor.py: SCORE_MAP.                                                *)
(***************************************************************************)
\* a variant that scores the reverse questions as the direct ones
SCORE_MAP_upwards(q_type) ==
  [Never |-> 1, Sometimes |-> 2, Always |-> 3]

SCORE_MAP(q_type) ==
  CASE q_type = "direct" -> [Never |-> 1, Sometimes |-> 2, Always |-> 3]
    [] q_type = "reconfirmation" -> [Never |-> 1, Sometimes |-> 2, Always |-> 3]
    [] q_type = "reverse" -> [Never |-> 3, Sometimes |-> 2, Always |-> 1]

(***************************************************************************)
(* Text: the str operations the scorers use, on the words of the model.    *)
(***************************************************************************)
SP == " "

\* the answer text of one option, "Always"
Txt(w) == <<w>>

\* str.lower() of a word.  Words without upper-case letters are unchanged;
\* a question code in lower case holds none of the keywords looked for.
Lower(w) ==
  CASE w = "Manager's" -> "manager's"
    [] w = "Manager" -> "manager"
    [] w = "Full" -> "full"
    [] w = "Name" -> "name"
    [] w = "Who" -> "who"
    [] w = "Timestamp" -> "timestamp"
    [] w = "Report" -> "report"
    [] w = "ANN" -> "ann"
    [] w = "Ann" -> "ann"
    [] w = "Lee" -> "lee"
    [] w = "LEE" -> "lee"
    [] w = "Bob" -> "bob"
    [] w = "mcKay" -> "mckay"
    [] w = "Mckay" -> "mckay"
    [] w = "Always" -> "always"
    [] w = "Never" -> "never"
    [] w = "Sometimes" -> "sometimes"
    [] w = "Maybe" -> "maybe"
    [] OTHER -> w

\* str.lower() of a text
LowerText(t) == [i \in 1..Len(t) |-> Lower(t[i])]

\* str.title() of a word
Title(w) ==
  CASE w = "ann" -> "Ann"
    [] w = "ANN" -> "Ann"
    [] w = "lee" -> "Lee"
    [] w = "LEE" -> "Lee"
    [] w = "bob" -> "Bob"
    [] w = "mcKay" -> "Mckay"
    [] OTHER -> w

\* the lower-case words that hold the keyword as a substring
KeywordWords(kw) ==
  CASE kw = "manager" -> {"manager", "manager's"}
    [] kw = "report" -> {"report", "reports"}
    [] kw = "timestamp" -> {"timestamp"}

\* kw in text.lower(), for a keyword without blanks
ContainsKeyword(t, kw) ==
  \E i \in 1..Len(t) : Lower(t[i]) \in KeywordWords(kw)

\* phrase in text.lower(), for a phrase of whole words
ContainsPhrase(t, phrase) ==
  \E i \in 1..Len(t) :
    /\ i + Len(phrase) - 1 <= Len(t)
    /\ SubSeq(LowerText(t), i, i + Len(phrase) - 1) = phrase

ManagerNamePhrase == <<"manager's", SP, "full", SP, "name">>
ReportToPhrase == <<"manager", SP, "report", SP, "to">>

RECURSIVE LStrip(_)
LStrip(t) == IF t # <<>> /\ t[1] = SP THEN LStrip(Tail(t)) ELSE t

RECURSIVE RStrip(_)
RStrip(t) ==
  IF t # <<>> /\ t[Len(t)] = SP THEN RStrip(SubSeq(t, 1, Len(t) - 1)) ELSE t

\* str.strip()
Strip(t) == LStrip(RStrip(t))

\* str.split(): the words of the text
Split(t) == SelectSeq(t, LAMBDA p : p # SP)

\* " ".join(words)
RECURSIVE Join(_)
Join(ws) ==
  IF ws = <<>> THEN <<>>
  ELSE IF Len(ws) = 1 THEN <<ws[1]>>
  ELSE <<ws[1], SP>> \o Join(Tail(ws))

\* the first three characters of a word, for the words that start with a
\* segment code; "" stands for any other beginning
Prefix3(w) ==
  IF w \in SchemaCodeSet THEN QUESTION_SCHEMA(w).segment
  ELSE CASE w = "STR_99" -> "STR"
         [] w = "STE_0" -> "STE"
         [] OTHER -> ""

\* str.startswith(seg)
StartsWith(t, seg) == t # <<>> /\ t[1] # SP /\ Prefix3(t[1]) = seg

\* d.get(answer) finds a key: the answer text is exactly one of the keys
HasKey(d, answer) == Len(answer) = 1 /\ answer[1] \in DOMAIN d

(***************************************************************************)
(* processor.normalize_name                                                *)
(***************************************************************************)
\* a variant that turns every word to title case and leaves the blanks
normalize_name_keeping_blanks(name) ==
  [i \in 1..Len(name) |-> Title(name[i])]

normalize_name(name) ==
  IF name = <<>> THEN <<>>
  ELSE LET name_str == Strip(name)
           parts == Split(name_str)
           words == [i \in 1..Len(parts) |-> Title(parts[i])]
       IN  IF words # <<>> THEN Join(words) ELSE <<>>

(***************************************************************************)
(* processor.py: subcategory helpers.                                      *)
(***************************************************************************)
AllBehaviors == UNION {Range(SUBCATEGORY_ORDER(c)) : c \in CategorySet}

get_subcategory_keys ==
  [behavior \in AllBehaviors |->
     CHOOSE tripod \in CategorySet : behavior \in Range(SUBCATEGORY_ORDER(tripod))]

init_subcategory_scores == [behavior \in AllBehaviors |-> 0]

\* round(num / den, 2) in hundredths.  Python rounds the double nearest to
\* num/den; the quotient is a tie only when den has a factor 8, and for
\* den < 40 such a tie is exact in binary and goes to the even hundredth.
Round2(num, den) ==
  LET q == (100 * num) \div den
      r == (100 * num) % den
  IN  IF 2 * r < den THEN q
      ELSE IF 2 * r > den THEN q + 1
      ELSE IF q % 2 = 0 THEN q ELSE q + 1

compute_subcategory_averages(subcategory_scores, subcategory_counts) ==
  [behavior \in DOMAIN subcategory_scores |->
     LET total == subcategory_scores[behavior]
         answered == IF behavior \in DOMAIN subcategory_counts
                     THEN subcategory_counts[behavior] ELSE 0
     IN  IF answered > 0 THEN Round2(total * 3, answered) ELSE 0]

\* a variant whose thresholds are open on the lower bound
_score_band_above(score) ==
  IF score > 800 THEN "green"
  ELSE IF score > 600 THEN "amber"
  ELSE "red"

_score_band(score) ==
  IF score >= 800 THEN "green"
  ELSE IF score >= 600 THEN "amber"
  ELSE "red"

(***************************************************************************)
(* processor.py: SUBCATEGORY_REMARKS, each remark with its words.          *)
(***************************************************************************)
SUBCATEGORY_REMARKS(tripod) ==
  CASE tripod = "trusting" ->
         ("Honesty, Dependability & Fairness" :>
           [red |->
              <<"You", SP, "are", SP, "currently", SP, "experienced", SP, "as",
              SP, "inconsistent", SP, "in", SP, "how", SP, "commitments", SP,
              "are", SP, "honoured", SP, "and", SP, "decisions", SP, "are", SP,
              "applied.", SP, "This", SP, "creates", SP, "hesitation", SP,
              "and", SP, "second-guessing", SP, "within", SP, "the", SP,
              "team,", SP, "as", SP, "people", SP, "are", SP, "unsure", SP,
              "whether", SP, "expectations", SP, "and", SP, "responses", SP,
              "will", SP, "remain", SP, "stable", SP, "across", SP,
              "situations.">>,
            amber |->
              <<"Your", SP, "intent", SP, "to", SP, "be", SP, "fair", SP,
              "and", SP, "dependable", SP, "is", SP, "visible;", SP,
              "however,", SP, "consistency", SP, "weakens", SP, "under", SP,
              "pressure.", SP, "While", SP, "expectations", SP, "are", SP,
              "usually", SP, "clear,", SP, "the", SP, "team", SP, "is", SP,
              "not", SP, "always", SP, "confident", SP, "that", SP,
              "commitments", SP, "and", SP, "decisions", SP, "will", SP,
              "hold", SP, "uniformly", SP, "across", SP, "similar", SP,
              "situations.">>,
            green |->
              <<"You", SP, "are", SP, "experienced", SP, "as", SP,
              "dependable", SP, "and", SP, "fair,", SP, "with", SP,
              "commitments", SP, "and", SP, "decisions", SP, "remaining", SP,
              "consistent", SP, "even", SP, "under", SP, "pressure.", SP,
              "This", SP, "reliability", SP, "builds", SP, "confidence,", SP,
              "reduces", SP, "ambiguity,", SP, "and", SP, "allows", SP, "the",
              SP, "team", SP, "to", SP, "operate", SP, "without", SP,
              "second-guessing", SP, "leadership", SP, "intent.">>])
      @@ ("Task Delegation Without Bias" :>
           [red |->
              <<"Work", SP, "allocation", SP, "is", SP, "experienced", SP,
              "as", SP, "uneven,", SP, "raising", SP, "concerns", SP, "about",
              SP, "favouritism", SP, "or", SP, "unclear", SP, "rationale.", SP,
              "This", SP, "limits", SP, "trust,", SP, "reduces", SP,
              "engagement,", SP, "and", SP, "restricts", SP, "equitable", SP,
              "development", SP, "opportunities", SP, "across", SP, "the", SP,
              "team.">>,
            amber |->
              <<"Delegation", SP, "decisions", SP, "are", SP, "generally", SP,
              "well-intended,", SP, "but", SP, "the", SP, "underlying", SP,
              "rationale", SP, "is", SP, "not", SP, "always", SP, "visible.",
              SP, "As", SP, "a", SP, "result,", SP, "team", SP, "members", SP,
              "are", SP, "sometimes", SP, "unsure", SP, "whether", SP, "work",
              SP, "is", SP, "assigned", SP, "based", SP, "on", SP, "skill,",
              SP, "development", SP, "needs,", SP, "or", SP, "convenience.">>,
            green |->
              <<"Delegation", SP, "is", SP, "experienced", SP, "as", SP,
              "fair,", SP, "transparent,", SP, "and", SP, "capability-based.",
              SP, "Team", SP, "members", SP, "understand", SP, "why", SP,
              "work", SP, "is", SP, "assigned", SP, "as", SP, "it", SP, "is,",
              SP, "which", SP, "strengthens", SP, "trust", SP, "and", SP,
              "supports", SP, "balanced", SP, "development", SP, "across", SP,
              "the", SP, "group.">>])
      @@ ("Providing Necessary Support" :>
           [red |->
              <<"Support", SP, "is", SP, "experienced", SP, "as", SP,
              "reactive", SP, "or", SP, "inconsistent,", SP, "particularly",
              SP, "during", SP, "roadblocks.", SP, "This", SP, "creates", SP,
              "delays,", SP, "increases", SP, "frustration,", SP, "and", SP,
              "leaves", SP, "team", SP, "members", SP, "feeling", SP, "they",
              SP, "must", SP, "navigate", SP, "challenges", SP, "largely", SP,
              "on", SP, "their", SP, "own.">>,
            amber |->
              <<"Support", SP, "is", SP, "available,", SP, "but", SP, "not",
              SP, "always", SP, "anticipatory.", SP, "While", SP, "help", SP,
              "is", SP, "provided", SP, "when", SP, "asked,", SP, "the", SP,
              "team", SP, "is", SP, "not", SP, "consistently", SP, "confident",
              SP, "that", SP, "obstacles", SP, "will", SP, "be", SP,
              "identified", SP, "and", SP, "addressed", SP, "early.">>,
            green |->
              <<"Support", SP, "is", SP, "timely", SP, "and", SP,
              "dependable.", SP, "Obstacles", SP, "are", SP, "anticipated", SP,
              "and", SP, "addressed", SP, "early,", SP, "enabling", SP,
              "momentum", SP, "and", SP, "reinforcing", SP, "the", SP,
              "team's", SP, "confidence", SP, "in", SP, "leadership", SP,
              "availability.">>])
      @@ ("Encouraging Open Communication" :>
           [red |->
              <<"Team", SP, "members", SP, "hesitate", SP, "to", SP, "speak",
              SP, "openly", SP, "due", SP, "to", SP, "uncertainty", SP,
              "about", SP, "how", SP, "concerns", SP, "or", SP, "differing",
              SP, "views", SP, "will", SP, "be", SP, "received.", SP, "This",
              SP, "restricts", SP, "information", SP, "flow", SP, "and", SP,
              "increases", SP, "the", SP, "risk", SP, "of", SP, "unresolved",
              SP, "issues", SP, "surfacing", SP, "later.">>,
            amber |->
              <<"You", SP, "encourage", SP, "openness,", SP, "but", SP,
              "signals", SP, "under", SP, "pressure", SP, "can", SP, "make",
              SP, "psychological", SP, "safety", SP, "feel", SP,
              "conditional.", SP, "As", SP, "a", SP, "result,", SP, "some", SP,
              "conversations", SP, "are", SP, "delayed", SP, "or", SP,
              "softened", SP, "rather", SP, "than", SP, "addressed", SP,
              "directly.">>,
            green |->
              <<"You", SP, "consistently", SP, "create", SP, "a", SP, "safe",
              SP, "environment", SP, "for", SP, "open", SP, "dialogue.", SP,
              "Team", SP, "members", SP, "feel", SP, "comfortable", SP,
              "raising", SP, "concerns,", SP, "sharing", SP, "ideas,", SP,
              "and", SP, "engaging", SP, "in", SP, "difficult", SP,
              "conversations", SP, "without", SP, "fear", SP, "of", SP,
              "negative", SP, "repercussions.">>])
    [] tripod = "tasking" ->
         ("Defining Roles & Responsibilities" :>
           [red |->
              <<"Role", SP, "clarity", SP, "is", SP, "insufficient,", SP,
              "leading", SP, "to", SP, "confusion", SP, "about", SP,
              "ownership", SP, "and", SP, "expectations.", SP, "This", SP,
              "results", SP, "in", SP, "rework,", SP, "delays,", SP, "and", SP,
              "misaligned", SP, "accountability.">>,
            amber |->
              <<"Roles", SP, "and", SP, "expectations", SP, "are", SP,
              "defined,", SP, "but", SP, "not", SP, "always", SP, "reinforced",
              SP, "at", SP, "key", SP, "milestones.", SP, "This", SP,
              "creates", SP, "occasional", SP, "ambiguity", SP, "during", SP,
              "execution,", SP, "particularly", SP, "when", SP, "priorities",
              SP, "shift.">>,
            green |->
              <<"Roles", SP, "and", SP, "responsibilities", SP, "are", SP,
              "consistently", SP, "clear", SP, "and", SP, "reinforced.", SP,
              "This", SP, "enables", SP, "accountability,", SP, "reduces", SP,
              "rework,", SP, "and", SP, "supports", SP, "smooth", SP,
              "execution", SP, "across", SP, "changing", SP, "contexts.">>])
      @@ ("Planning & Organizing" :>
           [red |->
              <<"Planning", SP, "is", SP, "largely", SP, "reactive,", SP,
              "resulting", SP, "in", SP, "last-minute", SP, "changes", SP,
              "and", SP, "avoidable", SP, "disruption.", SP, "This", SP,
              "places", SP, "unnecessary", SP, "strain", SP, "on", SP, "the",
              SP, "team", SP, "and", SP, "reduces", SP, "execution", SP,
              "stability.">>,
            amber |->
              <<"Basic", SP, "planning", SP, "structures", SP, "exist,", SP,
              "but", SP, "foresight", SP, "and", SP, "buffers", SP, "are", SP,
              "inconsistent.", SP, "While", SP, "plans", SP, "usually", SP,
              "hold,", SP, "pressure", SP, "situations", SP, "expose", SP,
              "gaps", SP, "in", SP, "preparation.">>,
            green |->
              <<"Planning", SP, "is", SP, "structured,", SP,
              "forward-looking,", SP, "and", SP, "resilient.", SP,
              "Anticipated", SP, "risks", SP, "are", SP, "built", SP, "into",
              SP, "plans,", SP, "enabling", SP, "predictable", SP, "execution",
              SP, "even", SP, "under", SP, "changing", SP, "conditions.">>])
      @@ ("Prioritising Tasks" :>
           [red |->
              <<"Priorities", SP, "are", SP, "unclear", SP, "or", SP,
              "frequently", SP, "shifting,", SP, "causing", SP, "low-value",
              SP, "work", SP, "to", SP, "consume", SP, "time", SP, "and", SP,
              "attention.", SP, "This", SP, "dilutes", SP, "focus", SP, "on",
              SP, "what", SP, "matters", SP, "most.">>,
            amber |->
              <<"Priorities", SP, "are", SP, "generally", SP, "set,", SP,
              "but", SP, "the", SP, "reasoning", SP, "behind", SP, "them", SP,
              "is", SP, "not", SP, "always", SP, "explicit.", SP, "This", SP,
              "can", SP, "create", SP, "confusion", SP, "when", SP,
              "trade-offs", SP, "are", SP, "required.">>,
            green |->
              <<"Priorities", SP, "are", SP, "consistently", SP, "clear", SP,
              "and", SP, "aligned", SP, "with", SP, "business", SP, "impact.",
              SP, "The", SP, "team", SP, "understands", SP, "not", SP, "just",
              SP, "what", SP, "to", SP, "focus", SP, "on,", SP, "but", SP,
              "why", SP, "certain", SP, "tasks", SP, "take", SP, "precedence.">>])
      @@ ("Monitoring Progress & Providing Assistance" :>
           [red |->
              <<"Progress", SP, "issues", SP, "are", SP, "often", SP,
              "identified", SP, "late,", SP, "increasing", SP, "escalation",
              SP, "and", SP, "recovery", SP, "effort.", SP, "This", SP,
              "raises", SP, "delivery", SP, "risk", SP, "and", SP,
              "dependency", SP, "on", SP, "firefighting.">>,
            amber |->
              <<"Progress", SP, "is", SP, "monitored,", SP, "but", SP, "early",
              SP, "warning", SP, "signals", SP, "are", SP, "not", SP, "always",
              SP, "acted", SP, "upon", SP, "decisively.", SP, "Risks", SP,
              "are", SP, "recognised,", SP, "though", SP, "intervention", SP,
              "can", SP, "be", SP, "delayed.">>,
            green |->
              <<"Progress", SP, "is", SP, "tracked", SP, "proactively,", SP,
              "with", SP, "early", SP, "intervention", SP, "when", SP, "risks",
              SP, "emerge.", SP, "This", SP, "reduces", SP, "escalation,", SP,
              "stabilises", SP, "delivery,", SP, "and", SP, "sustains", SP,
              "momentum.">>])
    [] tripod = "tending" ->
         ("Helping Team Members Learn & Improve" :>
           [red |->
              <<"Development", SP, "is", SP, "largely", SP, "left", SP, "to",
              SP, "individuals,", SP, "resulting", SP, "in", SP, "uneven", SP,
              "capability", SP, "growth.", SP, "Learning", SP, "happens", SP,
              "incidentally", SP, "rather", SP, "than", SP, "intentionally.">>,
            amber |->
              <<"Learning", SP, "and", SP, "development", SP, "are", SP,
              "encouraged,", SP, "but", SP, "not", SP, "consistently", SP,
              "embedded", SP, "into", SP, "day-to-day", SP, "work.", SP,
              "Growth", SP, "depends", SP, "more", SP, "on", SP, "individual",
              SP, "initiative", SP, "than", SP, "structured", SP, "guidance.">>,
            green |->
              <<"You", SP, "actively", SP, "support", SP, "learning", SP,
              "and", SP, "skill", SP, "development.", SP, "Growth", SP,
              "conversations", SP, "are", SP, "regular,", SP, "intentional,",
              SP, "and", SP, "aligned", SP, "with", SP, "both", SP,
              "individual", SP, "and", SP, "organisational", SP, "needs.">>])
      @@ ("Creating a Collaborative Environment" :>
           [red |->
              <<"Silos", SP, "or", SP, "cliques", SP, "limit", SP,
              "collaboration", SP, "and", SP, "shared", SP, "ownership.", SP,
              "Teamwork", SP, "suffers", SP, "as", SP, "issues", SP, "are", SP,
              "addressed", SP, "in", SP, "isolation", SP, "rather", SP, "than",
              SP, "collectively.">>,
            amber |->
              <<"Collaboration", SP, "exists,", SP, "but", SP, "often", SP,
              "requires", SP, "deliberate", SP, "prompting.", SP,
              "Cooperation", SP, "is", SP, "present,", SP, "though", SP, "not",
              SP, "yet", SP, "habitual", SP, "across", SP, "the", SP, "team.">>,
            green |->
              <<"You", SP, "foster", SP, "a", SP, "strong", SP, "sense", SP,
              "of", SP, "shared", SP, "ownership.", SP, "Collaboration", SP,
              "is", SP, "natural,", SP, "respectful,", SP, "and", SP,
              "embedded", SP, "in", SP, "how", SP, "the", SP, "team", SP,
              "operates.">>])
      @@ ("Resolving Conflicts & Fostering Camaraderie" :>
           [red |->
              <<"Conflicts", SP, "are", SP, "either", SP, "avoided", SP, "or",
              SP, "insufficiently", SP, "resolved,", SP, "allowing", SP,
              "tension", SP, "to", SP, "resurface.", SP, "This", SP, "weakens",
              SP, "trust", SP, "and", SP, "working", SP, "relationships", SP,
              "over", SP, "time.">>,
            amber |->
              <<"Conflicts", SP, "are", SP, "addressed,", SP, "but", SP,
              "closure", SP, "is", SP, "not", SP, "always", SP, "complete.",
              SP, "While", SP, "issues", SP, "are", SP, "discussed,", SP,
              "emotional", SP, "resolution", SP, "can", SP, "remain", SP,
              "partial.">>,
            green |->
              <<"Conflicts", SP, "are", SP, "handled", SP, "constructively",
              SP, "and", SP, "brought", SP, "to", SP, "clear", SP,
              "resolution.", SP, "This", SP, "strengthens", SP, "trust,", SP,
              "reinforces", SP, "respect,", SP, "and", SP, "sustains", SP,
              "positive", SP, "working", SP, "relationships.">>])
      @@ ("Recognising & Rewarding Achievement" :>
           [red |->
              <<"Effort", SP, "and", SP, "contribution", SP, "often", SP, "go",
              SP, "unnoticed,", SP, "reducing", SP, "motivation", SP, "and",
              SP, "discretionary", SP, "effort.", SP, "Recognition", SP,
              "feels", SP, "inconsistent", SP, "or", SP, "absent.">>,
            amber |->
              <<"Recognition", SP, "occurs,", SP, "but", SP, "lacks", SP,
              "regularity", SP, "or", SP, "personal", SP, "relevance.", SP,
              "While", SP, "achievements", SP, "are", SP, "acknowledged,", SP,
              "impact", SP, "is", SP, "uneven.">>,
            green |->
              <<"Recognition", SP, "is", SP, "timely,", SP, "meaningful,", SP,
              "and", SP, "aligned", SP, "with", SP, "effort", SP, "and", SP,
              "outcomes.", SP, "This", SP, "reinforces", SP, "positive", SP,
              "behaviour", SP, "and", SP, "sustains", SP, "engagement.">>])
\* str.lower() of a tripod name
LowerTripod(tripod) ==
  CASE tripod = "Trusting" -> "trusting"
    [] tripod = "TASKING" -> "tasking"
    [] OTHER -> tripod

\* a variant that takes the remark of the behavior whatever the tripod says
get_subcategory_remark_of_behavior(behavior, score, tripod) ==
  [tripod |-> LowerTripod(tripod),
   behavior |-> behavior,
   band |-> _score_band(score),
   remark |-> IF behavior \in DOMAIN get_subcategory_keys
              THEN SUBCATEGORY_REMARKS(get_subcategory_keys[behavior])
                     [behavior][_score_band(score)]
              ELSE <<>>]

\* processor.get_subcategory_remark, but for the score rounded to one
\* decimal; an unknown tripod or behavior gives no remarks, hence ""
get_subcategory_remark(behavior, score, tripod) ==
  LET tripod_key ==
        LowerTripod(IF tripod # "" THEN tripod
                    ELSE IF behavior \in DOMAIN get_subcategory_keys
                         THEN get_subcategory_keys[behavior] ELSE "")
      known == /\ tripod_key \in CategorySet
               /\ behavior \in DOMAIN SUBCATEGORY_REMARKS(tripod_key)
      band == _score_band(score)
  IN  [tripod |-> tripod_key,
       behavior |-> behavior,
       band |-> band,
       remark |->
         IF known /\ band \in DOMAIN SUBCATEGORY_REMARKS(tripod_key)[behavior]
         THEN SUBCATEGORY_REMARKS(tripod_key)[behavior][band]
         ELSE <<>>]

\* processor.build_subcategory_remark_context
build_subcategory_remark_context(subcategory_averages) ==
  [tripod \in CategorySet |->
     [behavior \in Range(SUBCATEGORY_ORDER(tripod)) |->
        get_subcategory_remark(
          behavior,
          IF behavior \in DOMAIN subcategory_averages
          THEN subcategory_averages[behavior] ELSE 0,
          tripod)]]

(***************************************************************************)
(* processor.extract_manager_info                                          *)
(***************************************************************************)
\* which branch of the if/elif chain an answered label takes
InfoKind(full_question) ==
  IF ContainsPhrase(full_question, ManagerNamePhrase) THEN "manager_name"
  ELSE IF ContainsPhrase(full_question, ReportToPhrase) THEN "reporting_to"
  ELSE IF ContainsKeyword(full_question, "timestamp") THEN "timestamp"
  ELSE "other"

\* a variant that fills a field no answered label sets
LastAnswer_defaulted(raw_answers, kind) ==
  LET hits == {i \in 1..Len(raw_answers) :
                 /\ raw_answers[i][2] # <<>>
                 /\ InfoKind(raw_answers[i][1]) = kind}
  IN  IF hits = {} THEN <<"unknown">>
      ELSE Strip(raw_answers[MaxOf(hits)][2][1])

\* the answer the loop leaves in a field: that of the last entry of the kind
\* whose answer list is not empty, "" when there is none
LastAnswer(raw_answers, kind) ==
  LET hits == {i \in 1..Len(raw_answers) :
                 /\ raw_answers[i][2] # <<>>
                 /\ InfoKind(raw_answers[i][1]) = kind}
  IN  IF hits = {} THEN <<>> ELSE Strip(raw_answers[MaxOf(hits)][2][1])

extract_manager_info(raw_answers) ==
  [manager_name |-> normalize_name(LastAnswer(raw_answers, "manager_name")),
   reporting_to |-> normalize_name(LastAnswer(raw_answers, "reporting_to")),
   timestamp |-> LastAnswer(raw_answers, "timestamp"),
   raw_manager_name |-> LastAnswer(raw_answers, "manager_name"),
   raw_reporting_to |-> LastAnswer(raw_answers, "reporting_to")]

(***************************************************************************)
(* processor.process_form_answers                                          *)
(***************************************************************************)
\* the question code an entry is scored under, or "" when the loop skips it
EntryCode(full_question, answer_list) ==
  IF answer_list = <<>> THEN ""
  ELSE IF \E keyword \in {"manager", "report", "timestamp"} :
            ContainsKeyword(full_question, keyword) THEN ""
  ELSE LET parts == Split(full_question)
       IN  IF parts = <<>> THEN ""
           ELSE IF parts[1] \notin SchemaCodeSet THEN ""
           ELSE IF ~HasKey(SCORE_MAP(QUESTION_SCHEMA(parts[1]).type),
                           Strip(answer_list[1])) THEN ""
           ELSE parts[1]

\* the entries the loop scores, in the order of the dict
ScoredEntries(raw_answers) ==
  LET kept == SelectSeq(raw_answers, LAMBDA e : EntryCode(e[1], e[2]) # "")
  IN  [i \in 1..Len(kept) |->
         LET question_code == EntryCode(kept[i][1], kept[i][2])
             schema == QUESTION_SCHEMA(question_code)
             answer == Strip(kept[i][2][1])
         IN  [answer |-> answer,
              score |-> SCORE_MAP(schema.type)[answer[1]],
              type |-> schema.type,
              segment |-> schema.segment,
              category |-> schema.category,
              behavior |-> schema.behavior,
              code |-> question_code]]

\* sum of the scores of the scored entries with the value in the field
ScoreSum(entries, field, value) ==
  SumSeq([i \in 1..Len(entries) |->
            IF entries[i][field] = value THEN entries[i].score ELSE 0])

\* number of the scored entries with the value in the field
CountSel(entries, field, value) ==
  Cardinality({i \in 1..Len(entries) : entries[i][field] = value})

\* the local subcategory_counts of process_form_answers at its return
process_form_counts(raw_answers) ==
  [behavior \in AllBehaviors |->
     CountSel(ScoredEntries(raw_answers), "behavior", behavior)]

process_form_answers(raw_answers, utcnow) ==
  LET manager_info == extract_manager_info(raw_answers)
      entries == ScoredEntries(raw_answers)
      answered_questions == {entries[i].code : i \in 1..Len(entries)}
      per_question_scores ==
        [question_code \in answered_questions |->
           LET last == MaxOf({i \in 1..Len(entries) : entries[i].code = question_code})
           IN  [answer |-> entries[last].answer,
                score |-> entries[last].score,
                type |-> entries[last].type,
                segment |-> entries[last].segment,
                category |-> entries[last].category,
                behavior |-> entries[last].behavior]]
      segment_totals ==
        [segment \in {"STR", "STA", "STE"} |->
           ScoreSum(entries, "segment", segment)]
      category_totals ==
        [category \in CategorySet |->
           ScoreSum(entries, "category", category)]
      subcategory_scores ==
        [behavior \in AllBehaviors |->
           ScoreSum(entries, "behavior", behavior)]
      subcategory_counts == process_form_counts(raw_answers)
      overall_score ==
        segment_totals["STR"] + segment_totals["STA"] + segment_totals["STE"]
      missing_questions ==
        SelectSeq(SortedCodes, LAMBDA c : c \notin answered_questions)
      manager_fields_present ==
        Cardinality({key \in {"manager_name", "reporting_to"} :
                       manager_info[key] # <<>>})
      is_complete_response ==
        /\ Cardinality(answered_questions) = Len(SchemaCodes)
        /\ manager_fields_present = 2
  IN  [manager_info |-> manager_info,
       per_question_scores |-> per_question_scores,
       segment_totals |-> segment_totals,
       category_totals |-> category_totals,
       subcategory_totals |-> subcategory_scores,
       subcategory_averages |->
         compute_subcategory_averages(subcategory_scores, subcategory_counts),
       subcategory_remarks |->
         build_subcategory_remark_context(
           compute_subcategory_averages(subcategory_scores, subcategory_counts)),
       overall_score |-> overall_score,
       meta |-> [total_questions |-> Len(SchemaCodes),
                 answered_questions |-> Cardinality(answered_questions),
                 missing_questions |-> missing_questions,
                 expected_response_fields |-> Len(SchemaCodes) + 2,
                 manager_fields_present |-> manager_fields_present,
                 is_complete_response |-> is_complete_response,
                 raw_response_fields |-> Len(raw_answers),
                 processed_at |-> utcnow]]

(***************************************************************************)
(* main.py: ASSESSMENT_QUESTIONS and the scorer of submit_assessment.      *)
(***************************************************************************)
ASSESSMENT_QUESTIONS(tripod) ==
  CASE tripod = "trusting" -> <<
        [id |-> "STR_1", type |-> "direct", scores |-> [Never |-> 1, Sometimes |-> 2, Always |-> 3], category |-> "trusting", behavior |-> "Honesty, Dependability & Fairness"],
        [id |-> "STR_2", type |-> "reconfirmation", scores |-> [Never |-> 1, Sometimes |-> 2, Always |-> 3], category |-> "trusting", behavior |-> "Honesty, Dependability & Fairness"],
        [id |-> "STR_3", type |-> "reverse", scores |-> [Never |-> 3, Sometimes |-> 2, Always |-> 1], category |-> "trusting", behavior |-> "Honesty, Dependability & Fairness"],
        [id |-> "STR_4", type |-> "direct", scores |-> [Never |-> 1, Sometimes |-> 2, Always |-> 3], category |-> "trusting", behavior |-> "Task Delegation Without Bias"],
        [id |-> "STR_5", type |-> "reconfirmation", scores |-> [Never |-> 1, Sometimes |-> 2, Always |-> 3], category |-> "trusting", behavior |-> "Task Delegation Without Bias"],
        [id |-> "STR_6", type |-> "reverse", scores |-> [Never |-> 3, Sometimes |-> 2, Always |-> 1], category |-> "trusting", behavior |-> "Task Delegation Without Bias"],
        [id |-> "STR_7", type |-> "direct", scores |-> [Never |-> 1, Sometimes |-> 2, Always |-> 3], category |-> "trusting", behavior |-> "Providing Necessary Support"],
        [id |-> "STR_8", type |-> "reconfirmation", scores |-> [Never |-> 1, Sometimes |-> 2, Always |-> 3], category |-> "trusting", behavior |-> "Providing Necessary Support"],
        [id |-> "STR_9", type |-> "reverse", scores |-> [Never |-> 3, Sometimes |-> 2, Always |-> 1], category |-> "trusting", behavior |-> "Providing Necessary Support"],
        [id |-> "STR_10", type |-> "direct", scores |-> [Never |-> 1, Sometimes |-> 2, Always |-> 3], category |-> "trusting", behavior |-> "Encouraging Open Communication"],
        [id |-> "STR_11", type |-> "reconfirmation", scores |-> [Never |-> 1, Sometimes |-> 2, Always |-> 3], category |-> "trusting", behavior |-> "Encouraging Open Communication"],
        [id |-> "STR_12", type |-> "reverse", scores |-> [Never |-> 3, Sometimes |-> 2, Always |-> 1], category |-> "trusting", behavior |-> "Encouraging Open Communication"] >>
    [] tripod = "tasking" -> <<
        [id |-> "STA_1", type |-> "direct", scores |-> [Never |-> 1, Sometimes |-> 2, Always |-> 3], category |-> "tasking", behavior |-> "Defining Roles & Responsibilities"],
        [id |-> "STA_2", type |-> "reconfirmation", scores |-> [Never |-> 1, Sometimes |-> 2, Always |-> 3], category |-> "tasking", behavior |-> "Defining Roles & Responsibilities"],
        [id |-> "STA_3", type |-> "reverse", scores |-> [Never |-> 3, Sometimes |-> 2, Always |-> 1], category |-> "tasking", behavior |-> "Defining Roles & Responsibilities"],
        [id |-> "STA_4", type |-> "direct", scores |-> [Never |-> 1, Sometimes |-> 2, Always |-> 3], category |-> "tasking", behavior |-> "Planning & Organizing"],
        [id |-> "STA_5", type |-> "reconfirmation", scores |-> [Never |-> 1, Sometimes |-> 2, Always |-> 3], category |-> "tasking", behavior |-> "Planning & Organizing"],
        [id |-> "STA_6", type |-> "reverse", scores |-> [Never |-> 3, Sometimes |-> 2, Always |-> 1], category |-> "tasking", behavior |-> "Planning & Organizing"],
        [id |-> "STA_7", type |-> "direct", scores |-> [Never |-> 1, Sometimes |-> 2, Always |-> 3], category |-> "tasking", behavior |-> "Prioritising Tasks"],
        [id |-> "STA_8", type |-> "reconfirmation", scores |-> [Never |-> 1, Sometimes |-> 2, Always |-> 3], category |-> "tasking", behavior |-> "Prioritising Tasks"],
        [id |-> "STA_9", type |-> "reverse", scores |-> [Never |-> 3, Sometimes |-> 2, Always |-> 1], category |-> "tasking", behavior |-> "Prioritising Tasks"],
        [id |-> "STA_10", type |-> "direct", scores |-> [Never |-> 1, Sometimes |-> 2, Always |-> 3], category |-> "tasking", behavior |-> "Monitoring Progress & Providing Assistance"],
        [id |-> "STA_11", type |-> "reconfirmation", scores |-> [Never |-> 1, Sometimes |-> 2, Always |-> 3], category |-> "tasking", behavior |-> "Monitoring Progress & Providing Assistance"],
        [id |-> "STA_12", type |-> "reverse", scores |-> [Never |-> 3, Sometimes |-> 2, Always |-> 1], category |-> "tasking", behavior |-> "Monitoring Progress & Providing Assistance"] >>
    [] tripod = "tending" -> <<
        [id |-> "STE_1", type |-> "direct", scores |-> [Never |-> 1, Sometimes |-> 2, Always |-> 3], category |-> "tending", behavior |-> "Helping Team Members Learn & Improve"],
        [id |-> "STE_2", type |-> "reconfirmation", scores |-> [Never |-> 1, Sometimes |-> 2, Always |-> 3], category |-> "tending", behavior |-> "Helping Team Members Learn & Improve"],
        [id |-> "STE_3", type |-> "reverse", scores |-> [Never |-> 3, Sometimes |-> 2, Always |-> 1], category |-> "tending", behavior |-> "Helping Team Members Learn & Improve"],
        [id |-> "STE_4", type |-> "direct", scores |-> [Never |-> 1, Sometimes |-> 2, Always |-> 3], category |-> "tending", behavior |-> "Creating a Collaborative Environment"],
        [id |-> "STE_5", type |-> "reconfirmation", scores |-> [Never |-> 1, Sometimes |-> 2, Always |-> 3], category |-> "tending", behavior |-> "Creating a Collaborative Environment"],
        [id |-> "STE_6", type |-> "reverse", scores |-> [Never |-> 3, Sometimes |-> 2, Always |-> 1], category |-> "tending", behavior |-> "Creating a Collaborative Environment"],
        [id |-> "STE_7", type |-> "direct", scores |-> [Never |-> 1, Sometimes |-> 2, Always |-> 3], category |-> "tending", behavior |-> "Resolving Conflicts & Fostering Camaraderie"],
        [id |-> "STE_8", type |-> "reconfirmation", scores |-> [Never |-> 1, Sometimes |-> 2, Always |-> 3], category |-> "tending", behavior |-> "Resolving Conflicts & Fostering Camaraderie"],
        [id |-> "STE_9", type |-> "reverse", scores |-> [Never |-> 3, Sometimes |-> 2, Always |-> 1], category |-> "tending", behavior |-> "Resolving Conflicts & Fostering Camaraderie"],
        [id |-> "STE_10", type |-> "direct", scores |-> [Never |-> 1, Sometimes |-> 2, Always |-> 3], category |-> "tending", behavior |-> "Recognising & Rewarding Achievement"],
        [id |-> "STE_11", type |-> "reconfirmation", scores |-> [Never |-> 1, Sometimes |-> 2, Always |-> 3], category |-> "tending", behavior |-> "Recognising & Rewarding Achievement"],
        [id |-> "STE_12", type |-> "reverse", scores |-> [Never |-> 3, Sometimes |-> 2, Always |-> 1], category |-> "tending", behavior |-> "Recognising & Rewarding Achievement"] >>

\* the category the handler derives from the question id, "" for `continue`
IdCategory(question_id) ==
  IF StartsWith(question_id, "STR") THEN "trusting"
  ELSE IF StartsWith(question_id, "STA") THEN "tasking"
  ELSE IF StartsWith(question_id, "STE") THEN "tending"
  ELSE ""

\* a variant that looks the question up by the first word of the key
FindQuestion_by_first_word(question_id) ==
  {q \in UNION {Range(ASSESSMENT_QUESTIONS(c)) : c \in CategorySet} :
     question_id # <<>> /\ q.id = question_id[1]}

\* the catalog entries with q["id"] == question_id (the loops stop at the first)
FindQuestion(question_id) ==
  {q \in UNION {Range(ASSESSMENT_QUESTIONS(c)) : c \in CategorySet} :
     Txt(q.id) = question_id}

\* a variant that scores every question upwards
ScoresGet_upwards(question, answer) ==
  IF HasKey(question.scores, answer)
  THEN [Never |-> 1, Sometimes |-> 2, Always |-> 3][answer[1]] ELSE 0

\* question["scores"].get(answer, 0)
ScoresGet(question, answer) ==
  IF HasKey(question.scores, answer) THEN question.scores[answer[1]] ELSE 0

\* the entries of the answers dict that reach "if question:", each with the
\* category of its id, its catalog question and its score
CountedEntries(answers) ==
  LET kept == SelectSeq(answers, LAMBDA e :
                 IdCategory(e[1]) # "" /\ FindQuestion(e[1]) # {})
  IN  [i \in 1..Len(kept) |->
         LET question == CHOOSE q \in FindQuestion(kept[i][1]) : TRUE
         IN  [category |-> IdCategory(kept[i][1]),
              behavior |-> question.behavior,
              id |-> question.id,
              score |-> ScoresGet(question, kept[i][2])]]

\* the locals question_count and subcategory_counts of submit_assessment
\* after its scoring loop
submission_counts(answers) ==
  LET entries == CountedEntries(answers)
  IN  [question_count |->
         [category \in CategorySet |->
            CountSel(entries, "category", category)],
       subcategory_counts |->
         [behavior \in AllBehaviors |->
            CountSel(entries, "behavior", behavior)]]

\* lines 2132-2182 of submit_assessment: the scores stored with a response
score_submission(answers) ==
  LET entries == CountedEntries(answers)
      category_scores ==
        [category \in CategorySet |->
           ScoreSum(entries, "category", category)]
      question_count == submission_counts(answers).question_count
      subcategory_scores ==
        [behavior \in AllBehaviors |->
           ScoreSum(entries, "behavior", behavior)]
      subcategory_counts == submission_counts(answers).subcategory_counts
      category_averages ==
        [category \in CategorySet |->
           IF question_count[category] > 0
           THEN 100 * category_scores[category] ELSE 0]
      total_score == SumSeq([i \in 1..3 |-> category_scores[Categories[i]]])
      max_total_score == (3 * 12) * 3
  IN  [category_scores |-> category_scores,
       category_averages |-> category_averages,
       subcategory_scores |-> subcategory_scores,
       subcategory_averages |->
         compute_subcategory_averages(subcategory_scores, subcategory_counts),
       overall_score |-> Round2(total_score * 100, max_total_score)]

(***************************************************************************)
(* Values of the documents.                                                *)
(***************************************************************************)
\* Python None
NoneValue == [kind |-> "none"]
\* a datetime (datetime.utcnow() at clock reading t)
DateTime(t) == [kind |-> "datetime", t |-> t]
\* a time stamp sent as a str by the form script
StrStamp(t) == [kind |-> "str", t |-> t]
\* the empty str, as a text and where a time stamp is expected
EmptyText == <<>>
EmptyStamp == [kind |-> "str", t |-> -1]
\* uuid.uuid4(): a value no other call draws; n numbers the drawing call
Uuid(of, n) == [kind |-> "uuid", of |-> of, n |-> n]

\* d.get(f, default)
Get(d, f, default) == IF f \in DOMAIN d THEN d[f] ELSE default

\* a or b, for time stamps: None and "" are false
OrElse(a, b) == IF a = NoneValue \/ a = EmptyStamp THEN b ELSE a

\* {"$set": upd} applied to a document
SetFields(doc, upd) ==
  [f \in (DOMAIN doc) \cup (DOMAIN upd) |->
     IF f \in DOMAIN upd THEN upd[f] ELSE doc[f]]

\* min()/max() raise TypeError when a str meets a datetime
Comparable(stamps) ==
  \A i, j \in 1..Len(stamps) : stamps[i].kind = stamps[j].kind

MinStamp(stamps) ==
  IF stamps = <<>> THEN EmptyStamp
  ELSE CHOOSE x \in Range(stamps) : \A y \in Range(stamps) : x.t <= y.t

MaxStamp(stamps) ==
  IF stamps = <<>> THEN EmptyStamp
  ELSE CHOOSE x \in Range(stamps) : \A y \in Range(stamps) : y.t <= x.t

\* the time stamps an aggregator collects from the responses of a manager
AllTimestamps(all_assessments) ==
  LET stamp(a) == OrElse(Get(a, "submittedAt", NoneValue),
                         Get(a, "created_at", NoneValue))
  IN  SelectSeq([i \in 1..Len(all_assessments) |-> stamp(all_assessments[i])],
                LAMBDA s : s # NoneValue /\ s # EmptyStamp)

\* processed.category_totals.get(category, 0) of every response, in order
CategoryScoresList(all_assessments, category) ==
  [i \in 1..Len(all_assessments) |->
     Get(Get(Get(all_assessments[i], "processed", <<>>),
             "category_totals", <<>>), category, 0)]

\* a variant that leaves the responses without a score out of the mean
Mean_of_scored(xs) ==
  [num |-> SumSeq(xs),
   den |-> Cardinality({i \in 1..Len(xs) : xs[i] # 0})]

\* statistics.mean of integers: the exact fraction
Mean(xs) == [num |-> SumSeq(xs), den |-> Len(xs)]

\* statistics.stdev: the square root of the sample variance num/den
Stdev(xs) ==
  [sqrt_num |-> Len(xs) * SumSeq([i \in 1..Len(xs) |-> xs[i] * xs[i]])
                - SumSeq(xs) * SumSeq(xs),
   sqrt_den |-> Len(xs) * (Len(xs) - 1)]

ScoreDistribution(all_assessments) ==
  [category \in CategorySet |->
     LET xs == CategoryScoresList(all_assessments, category)
     IN  [min |-> IF xs # <<>> THEN MinOf(Range(xs)) ELSE 0,
          max |-> IF xs # <<>> THEN MaxOf(Range(xs)) ELSE 0,
          std |-> IF Len(xs) > 1 THEN Stdev(xs) ELSE 0]]

\* a variant that takes the mean of the four subcategories
CategoryFromSubcategories_mean(subcategory_averages, category) ==
  SumSeq([i \in 1..Len(SUBCATEGORY_ORDER(category)) |->
            Get(subcategory_averages, SUBCATEGORY_ORDER(category)[i], 0)])
    \div Len(SUBCATEGORY_ORDER(category))

\* round(sum(subcategory_averages.get(b, 0.0) for b in SUBCATEGORY_ORDER[c]), 2):
\* a sum of four numbers of two decimals, off its hundredth by float error only
CategoryFromSubcategories(subcategory_averages, category) ==
  SumSeq([i \in 1..Len(SUBCATEGORY_ORDER(category)) |->
            Get(subcategory_averages, SUBCATEGORY_ORDER(category)[i], 0)])

\* a variant without the cap
confidence_score_uncapped(total_assessments, per_assessment) ==
  total_assessments * per_assessment

\* min(100, len(assessments) * 10), and min(total_assessments * 5, 100) of
\* update_manager_aggregation_saas
confidence_score(total_assessments, per_assessment) ==
  IF total_assessments * per_assessment < 100
  THEN total_assessments * per_assessment ELSE 100

(***************************************************************************)
(* processor.aggregate_manager_scores                                      *)
(***************************************************************************)
\* the record returned, but for subcategory_remarks, which
\* build_subcategory_remark_context derives from subcategory_averages alone
aggregate_manager_scores(assessments_, utcnow) ==
  IF assessments_ = <<>> THEN NoneValue
  ELSE
  LET all_timestamps == AllTimestamps(assessments_)
      category_totals ==
        [category \in CategorySet |->
           SumSeq(CategoryScoresList(assessments_, category))]
      subcategory_totals ==
        [behavior \in AllBehaviors |->
           SumSeq([i \in 1..Len(assessments_) |->
                     Get(Get(Get(assessments_[i], "processed", <<>>),
                             "subcategory_totals", <<>>), behavior, 0)])]
      latest_assessment == assessments_[Len(assessments_)]
      manager_info ==
        Get(Get(latest_assessment, "processed", <<>>), "manager_info", <<>>)
      total_assessments == Len(assessments_)
      subcategory_averages ==
        [behavior \in AllBehaviors |->
           IF total_assessments # 0
           THEN Round2(subcategory_totals[behavior], total_assessments) ELSE 0]
      category_from_subcategories ==
        [category \in CategorySet |->
           CategoryFromSubcategories(subcategory_averages, category)]
  IN  IF ~Comparable(all_timestamps) THEN [raised |-> "TypeError"]
      ELSE
      [manager_name |-> Get(manager_info, "manager_name", EmptyText),
       reporting_to |-> Get(manager_info, "reporting_to", EmptyText),
       raw_manager_name |-> Get(manager_info, "raw_manager_name", EmptyText),
       raw_reporting_to |-> Get(manager_info, "raw_reporting_to", EmptyText),
       total_assessments |-> total_assessments,
       first_assessment |-> MinStamp(all_timestamps),
       last_assessment |-> MaxStamp(all_timestamps),
       category_totals |-> category_totals,
       category_averages |-> category_from_subcategories,
       subcategory_totals |-> subcategory_totals,
       subcategory_averages |-> subcategory_averages,
       score_distribution |-> ScoreDistribution(assessments_),
       confidence_score |-> confidence_score(Len(assessments_), 10),
       last_updated |-> utcnow]

(***************************************************************************)
(* aggregator.update_manager_aggregation: the record it computes           *)
(***************************************************************************)
legacy_aggregated(manager_name, all_assessments, utcnow) ==
  LET all_timestamps == AllTimestamps(all_assessments)
      latest_assessment == all_assessments[Len(all_assessments)]
      manager_info ==
        Get(Get(latest_assessment, "processed", <<>>), "manager_info", <<>>)
  IN  IF ~Comparable(all_timestamps) THEN [raised |-> "TypeError"]
      ELSE
      [manager_name |-> manager_name,
       reporting_to |-> Get(manager_info, "reporting_to", EmptyText),
       raw_manager_name |-> Get(manager_info, "raw_manager_name", EmptyText),
       raw_reporting_to |-> Get(manager_info, "raw_reporting_to", EmptyText),
       total_assessments |-> Len(all_assessments),
       first_assessment |-> MinStamp(all_timestamps),
       last_assessment |-> MaxStamp(all_timestamps),
       category_totals |->
         [category \in CategorySet |->
            SumSeq(CategoryScoresList(all_assessments, category))],
       category_averages |->
         [category \in CategorySet |->
            Mean(CategoryScoresList(all_assessments, category))],
       score_distribution |-> ScoreDistribution(all_assessments),
       confidence_score |-> confidence_score(Len(all_assessments), 10),
       last_updated |-> utcnow]

(***************************************************************************)
(* main.update_manager_aggregation_saas: the values it computes            *)
(***************************************************************************)
\* a variant whose $group gives a zeroed group when no document matches
pipeline_group_zeroed(matched) ==
  LET stamps == [i \in 1..Len(matched) |-> matched[i].submission_time]
      sum(category) ==
        SumSeq([i \in 1..Len(matched) |-> matched[i].category_scores[category]])
  IN  << [total_assessments |-> Len(matched),
          trusting_sum |-> sum("trusting"),
          tasking_sum |-> sum("tasking"),
          tending_sum |-> sum("tending"),
          first_assessment |-> MinStamp(stamps),
          last_assessment |-> MaxStamp(stamps)] >>

\* lines 2272-2288: the $match/$group pipeline over the documents that
\* match: no document gives no group, hence an empty result list
pipeline_group(matched) ==
  IF matched = <<>> THEN <<>>
  ELSE
  LET stamps == [i \in 1..Len(matched) |-> matched[i].submission_time]
      sum(category) ==
        SumSeq([i \in 1..Len(matched) |-> matched[i].category_scores[category]])
  IN  << [total_assessments |-> Len(matched),
          trusting_sum |-> sum("trusting"),
          tasking_sum |-> sum("tasking"),
          tending_sum |-> sum("tending"),
          first_assessment |-> MinStamp(stamps),
          last_assessment |-> MaxStamp(stamps)] >>

\* a variant that divides with // (floor division)
saas_subcategory_averages_floored(subcategory_average_sums, total_assessments) ==
  [behavior \in DOMAIN subcategory_average_sums |->
     IF total_assessments # 0
     THEN 100 * (subcategory_average_sums[behavior] \div total_assessments)
     ELSE 0]

\* lines 2338-2341: round(total / total_assessments, 2) of every behavior
saas_subcategory_averages(subcategory_average_sums, total_assessments) ==
  [behavior \in DOMAIN subcategory_average_sums |->
     IF total_assessments # 0
     THEN Round2(subcategory_average_sums[behavior], total_assessments)
     ELSE 0]

\* a variant that takes the time of the run for the last assessment
saas_times_of_the_run(agg, utcnow) ==
  [first_assessment |-> agg.first_assessment,
   last_assessment |-> utcnow,
   last_updated |-> utcnow,
   updated_at |-> utcnow]

\* lines 2363-2366: the four time fields of manager_data
saas_times(agg, utcnow) ==
  [first_assessment |-> agg.first_assessment,
   last_assessment |-> agg.last_assessment,
   last_updated |-> utcnow,
   updated_at |-> utcnow]

\* manager_data, but for subcategory_remarks, which
\* build_subcategory_remark_context derives from subcategory_averages alone
saas_manager_data(company_id, manager_name, agg, reporting_to, assessment_docs, utcnow) ==
  LET total_assessments == agg.total_assessments
      subcategory_totals ==
        [behavior \in AllBehaviors |->
           SumSeq([i \in 1..Len(assessment_docs) |->
                     Get(Get(assessment_docs[i], "subcategory_scores", <<>>),
                         behavior, 0)])]
      subcategory_average_sums == subcategory_totals
      assessment_summaries ==
        [index \in 1..Len(assessment_docs) |->
           LET assessment == assessment_docs[index]
           IN  [sequence |-> index,
                response_id |-> Get(assessment, "id", EmptyStamp),
                submitted_at |-> Get(assessment, "submission_time", NoneValue),
                category_marks |-> Get(assessment, "category_scores", <<>>),
                subcategory_marks |-> Get(assessment, "subcategory_scores", <<>>),
                category_totals |-> Get(assessment, "category_scores", <<>>),
                subcategory_totals |-> Get(assessment, "subcategory_scores", <<>>),
                overall_score |-> Get(assessment, "overall_score", 0)]]
      subcategory_averages ==
        saas_subcategory_averages(subcategory_average_sums, total_assessments)
      category_averages ==
        [category \in CategorySet |->
           CategoryFromSubcategories(subcategory_averages, category)]
  IN  [company_id |-> company_id,
       manager_name |-> manager_name,
       reporting_to |-> reporting_to,
       total_assessments |-> total_assessments,
       category_averages |-> category_averages,
       category_totals |-> [trusting |-> agg.trusting_sum,
                            tasking |-> agg.tasking_sum,
                            tending |-> agg.tending_sum],
       subcategory_averages |-> subcategory_averages,
       subcategory_totals |-> subcategory_totals,
       assessment_summaries |-> assessment_summaries,
       confidence_score |-> confidence_score(total_assessments, 5),
       first_assessment |-> saas_times(agg, utcnow).first_assessment,
       last_assessment |-> saas_times(agg, utcnow).last_assessment,
       last_updated |-> saas_times(agg, utcnow).last_updated,
       updated_at |-> saas_times(agg, utcnow).updated_at]

(***************************************************************************)
(* The inputs of the model.                                                *)
(***************************************************************************)
\* main.FORM_SECRET
FORM_SECRET == "secret"

\* the companies collection: slug -> id
CompanySlugs == {"acme"}
CompanyId(slug) == [kind |-> "company", slug |-> slug]

\* the option with the highest score for a catalog question
MaxOption(code) ==
  IF QUESTION_SCHEMA(code).type = "reverse" THEN "Never" ELSE "Always"

\* answer sheets of the Google form: label -> list of answers
FormFullMax ==
  [i \in 1..Len(SchemaCodes) |->
     <<Txt(SchemaCodes[i]), <<Txt(MaxOption(SchemaCodes[i]))>> >>]
FormLow == << <<Txt("STR_1"), <<Txt("Sometimes")>> >>,
              <<Txt("STA_3"), <<Txt("Always")>> >> >>
FormSheets == {FormFullMax, <<>>, FormLow}

NameLabel == <<"Manager's", SP, "Full", SP, "Name">>
ReportLabel ==
  <<"Who", SP, "does", SP, "your", SP, "manager", SP, "report", SP, "to">>
FormNames == {<<"ann">>, <<SP>>}
FormReportsTo == {<<"lee">>}

\* the answers of one Google form submission
FormAnswers(name, reports_to, sheet) ==
  << <<NameLabel, <<name>> >>, <<ReportLabel, <<reports_to>> >> >> \o sheet

\* answer dicts of the web form: question id -> option
WebFullMax ==
  [i \in 1..Len(SchemaCodes) |->
     <<Txt(SchemaCodes[i]), Txt(MaxOption(SchemaCodes[i]))>>]
WebLow == << <<Txt("STR_1"), Txt("Sometimes")>>,
             <<Txt("STA_3"), Txt("Always")>> >>
WebSheets == {WebFullMax, <<>>, WebLow}
WebManagers == {<<"Ann">>, EmptyText}
WebReportsTo == {<<"Lee">>}
WebSlugs == CompanySlugs \cup {"nowhere"}

\* every answers value of a Google form submission of the model
FormPayloads ==
  {FormAnswers(name, reports_to, sheet) :
     name \in FormNames, reports_to \in FormReportsTo, sheet \in FormSheets}

\* Google form submissions of one manager under two spellings, reporting
\* to one of two people
ServiceFormPayloads ==
  {FormAnswers(name, reports_to, FormLow) :
     name \in {<<"ann">>, <<"ANN">>}, reports_to \in {<<"lee">>, <<"bob">>}}

\* web form submissions: manager_name, reporting_to and answers of the body
ServiceWebManagers == {<<"Ann">>, <<"ann">>}
ServiceWebReportsTo == {<<"Lee">>, <<"Bob">>}
ServiceWebSheets == {WebLow}

\* the twelve questions of "trusting", each with its best option
TrustingCodes == SelectSeq(SchemaCodes, LAMBDA code :
                             QUESTION_SCHEMA(code).category = "trusting")
FormTrustingMax ==
  [i \in 1..Len(TrustingCodes) |->
     <<Txt(TrustingCodes[i]), <<Txt(MaxOption(TrustingCodes[i]))>> >>]
WebTrustingMax ==
  [i \in 1..Len(TrustingCodes) |->
     <<Txt(TrustingCodes[i]), Txt(MaxOption(TrustingCodes[i]))>>]

\* submissions at the door: of a named and of an unnamed manager, with the
\* trusting questions answered or with no answer at all
IntakeFormPayloads ==
  {FormAnswers(name, reports_to, sheet) :
     name \in FormNames, reports_to \in FormReportsTo,
     sheet \in {FormTrustingMax, <<>>}}
IntakeWebSheets == {WebTrustingMax, <<>>}

\* process_form_answers and the scorer of submit_assessment are functions of
\* the answers alone (but for processed_at): each payload is scored once
ProcessedOf ==
  [answers \in FormPayloads \cup ServiceFormPayloads \cup IntakeFormPayloads |->
     process_form_answers(answers, NoneValue)]
ScoresOf ==
  [answers \in WebSheets \cup IntakeWebSheets |-> score_submission(answers)]

(***************************************************************************)
(* The state.                                                              *)
(***************************************************************************)
VARIABLES
  raw_responses,    \* db["google_form_responses"], in insertion order
  assessments,      \* db["assessments"], in insertion order
  managers,         \* db["manager"], in insertion order
  form_submissions, \* db["form_submissions"], in insertion order
  requests,         \* the calls of the two submission handlers, in order
  tasks,            \* the aggregation runs (background tasks and direct calls)
  now,              \* the wall clock, datetime.utcnow()
  batch_result,     \* what the last call of aggregate_manager_scores returned
  payload,          \* scorer specification: the answers under scoring
  scored,           \* scorer specification: what the scorers returned
  written           \* history: for each document of db["manager"], the run
                    \* that wrote it last (by), what that run had read (src)
                    \* and what the run that wrote it before had read (prev)

vars == <<raw_responses, assessments, managers, form_submissions, requests,
          tasks, now, batch_result, payload, scored, written>>

db_vars == <<raw_responses, assessments, managers, form_submissions>>

NotCalled == [kind |-> "not called"]

Init ==
  /\ raw_responses = <<>>
  /\ assessments = <<>>
  /\ managers = <<>>
  /\ form_submissions = <<>>
  /\ requests = <<>>
  /\ tasks = <<>>
  /\ now = 0
  /\ batch_result = NotCalled
  /\ payload = NotCalled
  /\ scored = NotCalled
  /\ written = <<>>

\* time passes
Tick ==
  /\ now < MaxClock
  /\ now' = now + 1
  /\ UNCHANGED <<db_vars, requests, tasks, batch_result, payload, scored, written>>

\* the calls made so far: the requests and the direct calls of the two
\* aggregators that write (aggregate_manager_scores changes no collection)
Calls ==
  Len(requests)
    + Cardinality({t \in 1..Len(tasks) : tasks[t].origin = "direct"})

\* a finished handler call keeps its HTTP status only
Done(kind, status) == [kind |-> kind, pc |-> "done", status |-> status]

\* a new aggregation run
NewTask(kind, company_id, manager_name, origin) ==
  [kind |-> kind, company_id |-> company_id, manager_name |-> manager_name,
   origin |-> origin, pc |-> "start", ret |-> "", loc |-> <<>>]

\* a finished run keeps what it returned
Finish(task, ret) == [task EXCEPT !.pc = "done", !.ret = ret, !.loc = <<>>]

\* the documents of a collection that match a filter on manager_name
ByManager(coll, manager_name) ==
  SelectSeq(coll, LAMBDA d : d.manager_name = manager_name)

\* ... and on company_id
ByCompanyManager(coll, company_id, manager_name) ==
  SelectSeq(coll, LAMBDA d : /\ Get(d, "company_id", NoneValue) = company_id
                             /\ d.manager_name = manager_name)

\* the positions in a collection of the documents that match a filter on
\* manager_name, in order
PositionsByManager(coll, manager_name) ==
  SelectSeq([i \in 1..Len(coll) |-> i],
            LAMBDA i : coll[i].manager_name = manager_name)

\* ... and on company_id
PositionsByCompanyManager(coll, company_id, manager_name) ==
  SelectSeq([i \in 1..Len(coll) |-> i],
            LAMBDA i : /\ Get(coll[i], "company_id", NoneValue) = company_id
                       /\ coll[i].manager_name = manager_name)

\* the documents at a list of positions
Docs(coll, read) == [i \in 1..Len(read) |-> coll[read[i]]]

\* update_one(filter, {"$set": upd}), hits the positions of the documents
\* that match the filter: the first match is updated
UpdateFirst(coll, hits, upd) ==
  IF hits = <<>> THEN coll
  ELSE [coll EXCEPT ![hits[1]] = SetFields(coll[hits[1]], upd)]

\* the history of a write of run t to the manager collection
Wrote(hits, t, src) ==
  IF hits = <<>>
  THEN Append(written, [by |-> t, src |-> src, prev |-> NoneValue])
  ELSE [written EXCEPT ![hits[1]] = [by |-> t, src |-> src, prev |-> @.src]]

\* db.create_indexes: the unique indexes of the manager collection, on
\* manager_name and on (company_id, manager_name)
ManagerInsertAllowed(doc) ==
  \A i \in 1..Len(managers) : managers[i].manager_name # doc.manager_name

\* a variant without the unique index
AssessmentInsertAllowed_without_index(doc) == TRUE

\* db.create_indexes: the unique index of assessments on session_id
AssessmentInsertAllowed(doc) ==
  \A i \in 1..Len(assessments) : assessments[i].session_id # doc.session_id

(***************************************************************************)
(* main.google_form_webhook                                                *)
(***************************************************************************)
\* lines 2416-2427: the document of a submission
webhook_doc(submittedAt, answers, processed, manager_name, reporting_to) ==
  [submittedAt |-> submittedAt,
   manager_name |-> manager_name,
   reporting_to |-> reporting_to,
   raw_manager_name |-> processed.manager_info.raw_manager_name,
   raw_reporting_to |-> processed.manager_info.raw_reporting_to,
   raw_answers |-> answers,
   processed |-> processed,
   created_at |-> DateTime(now),
   processed_at |-> DateTime(now)]

\* a variant that stores the response before it checks the name
webhook_store_before_check(submittedAt, answers, processed, manager_name, reporting_to) ==
  /\ raw_responses' = Append(raw_responses,
       webhook_doc(submittedAt, answers, processed, manager_name, reporting_to))
  /\ IF manager_name = EmptyText
     THEN /\ requests' = Append(requests, Done("webhook", 500))
          /\ UNCHANGED tasks
     ELSE /\ tasks' = Append(tasks,
               NewTask("legacy", NoneValue, manager_name, "background"))
          /\ requests' = Append(requests, Done("webhook", 200))

\* lines 2412-2433: the check of the name, insert_one and add_task
webhook_store(submittedAt, answers, processed, manager_name, reporting_to) ==
  IF manager_name = EmptyText
  THEN \* HTTPException(400), turned into a 500 by the handler
       /\ requests' = Append(requests, Done("webhook", 500))
       /\ UNCHANGED <<raw_responses, tasks>>
  ELSE /\ raw_responses' = Append(raw_responses,
            webhook_doc(submittedAt, answers, processed,
                        manager_name, reporting_to))
       /\ tasks' = Append(tasks,
            NewTask("legacy", NoneValue, manager_name, "background"))
       /\ requests' = Append(requests, Done("webhook", 200))

\* lines 2407-2410: the names of the scored submission
webhook_scored(submittedAt, answers, processed) ==
  webhook_store(submittedAt, answers, processed,
                Strip(processed.manager_info.manager_name),
                Strip(processed.manager_info.reporting_to))

google_form_webhook(x_form_secret, submittedAt, answers) ==
  /\ Calls < MaxCalls
  /\ UNCHANGED <<assessments, managers, form_submissions, now, batch_result,
                 payload, scored, written>>
  /\ IF x_form_secret # FORM_SECRET
     THEN /\ requests' = Append(requests, Done("webhook", 401))
          /\ UNCHANGED <<raw_responses, tasks>>
     ELSE webhook_scored(submittedAt, answers,
            [ProcessedOf[answers] EXCEPT !.meta.processed_at = DateTime(now)])

(***************************************************************************)
(* main.submit_assessment, one step per database call                      *)
(***************************************************************************)
\* the session ids a client can send: a new one, or one it has seen
SessionChoices ==
  {Uuid("request", Len(requests) + 1)}
    \cup {assessments[i].session_id : i \in 1..Len(assessments)}
    \cup {requests[i].session_id :
            i \in {j \in 1..Len(requests) : requests[j].pc # "done"}}

\* lines 2097-2130: the checks, up to the duplicate check, of a request
\* that carries the current link token of its company
submit_check(company_slug, manager_name, reporting_to, answers, session_id) ==
  /\ Calls < MaxCalls
  /\ UNCHANGED <<db_vars, tasks, now, batch_result, payload, scored, written>>
  /\ requests' = Append(requests,
       IF manager_name = EmptyText THEN Done("submit", 400)
       ELSE IF company_slug \notin CompanySlugs THEN Done("submit", 404)
       ELSE IF \E i \in 1..Len(assessments) :
                 /\ assessments[i].company_id = CompanyId(company_slug)
                 /\ assessments[i].session_id = session_id
            THEN Done("submit", 400)
       ELSE [kind |-> "submit", pc |-> "insert", status |-> 0,
             company_slug |-> company_slug, manager_name |-> manager_name,
             reporting_to |-> reporting_to, answers |-> answers,
             session_id |-> session_id])

\* lines 2186-2207: the document of a scored submission
response_data(r, req, scores) ==
  [id |-> Uuid("response", r),
   company_id |-> CompanyId(req.company_slug),
   company_slug |-> req.company_slug,
   manager_name |-> req.manager_name,
   reporting_to |-> req.reporting_to,
   answers |-> req.answers,
   category_scores |-> scores.category_scores,
   category_averages |-> scores.category_averages,
   subcategory_scores |-> scores.subcategory_scores,
   subcategory_averages |-> scores.subcategory_averages,
   overall_score |-> scores.overall_score,
   submission_time |-> DateTime(now),
   session_id |-> req.session_id,
   created_at |-> DateTime(now),
   updated_at |-> DateTime(now)]

\* a variant that goes on without storing the response
insert_response_skipped(r, doc) ==
  /\ requests' = [requests EXCEPT ![r].pc = "track"]
  /\ UNCHANGED assessments

\* line 2209: async_assessments.insert_one(response_data)
insert_response(r, doc) ==
  IF AssessmentInsertAllowed(doc)
  THEN /\ assessments' = Append(assessments, doc)
       /\ requests' = [requests EXCEPT ![r].pc = "track"]
  ELSE \* DuplicateKeyError, turned into a 500 by the handler
       /\ requests' = [requests EXCEPT ![r] = Done("submit", 500)]
       /\ UNCHANGED assessments

\* lines 2132-2209: scoring and async_assessments.insert_one
submit_insert(r) ==
  /\ requests[r].pc = "insert"
  /\ UNCHANGED <<raw_responses, managers, form_submissions, tasks, now,
                 batch_result, payload, scored, written>>
  /\ insert_response(r,
       response_data(r, requests[r], ScoresOf[requests[r].answers]))

\* lines 2211-2236: async_form_submissions.insert_one, add_task, return
submit_finish(r) ==
  /\ requests[r].pc = "track"
  /\ UNCHANGED <<raw_responses, assessments, managers, now, batch_result,
                 payload, scored, written>>
  /\ LET req == requests[r]
     IN  /\ form_submissions' = Append(form_submissions,
              [company_slug |-> req.company_slug,
               manager_name |-> req.manager_name,
               status |-> "completed",
               created_at |-> DateTime(now)])
         /\ tasks' = Append(tasks,
              NewTask("saas", CompanyId(req.company_slug), req.manager_name,
                      "background"))
         /\ requests' = [requests EXCEPT ![r] = Done("submit", 200)]

(***************************************************************************)
(* aggregator.update_manager_aggregation, one step per database call.      *)
(* A synchronous background task: it runs in a worker thread, next to the  *)
(* event loop and to the other worker threads.                             *)
(***************************************************************************)
\* lines 16-92: raw_responses.find, and the record computed from the result
legacy_find(t) ==
  /\ tasks[t].kind = "legacy" /\ tasks[t].pc = "start"
  /\ UNCHANGED <<db_vars, requests, now, batch_result, payload, scored, written>>
  /\ LET manager_name == tasks[t].manager_name
         read == PositionsByManager(raw_responses, manager_name)
         all_assessments == Docs(raw_responses, read)
         aggregated ==
           legacy_aggregated(manager_name, all_assessments, DateTime(now))
     IN  tasks' = [tasks EXCEPT ![t] =
           IF all_assessments = <<>> THEN Finish(@, "None")
           ELSE IF "raised" \in DOMAIN aggregated THEN Finish(@, "raised")
           ELSE [@ EXCEPT !.pc = "exists",
                          !.loc = [aggregated |-> aggregated,
                                   read |-> read]]]

\* lines 95-96: managers.find_one
legacy_exists(t) ==
  /\ tasks[t].kind = "legacy" /\ tasks[t].pc = "exists"
  /\ UNCHANGED <<db_vars, requests, now, batch_result, payload, scored, written>>
  /\ tasks' = [tasks EXCEPT ![t] =
       [@ EXCEPT !.pc = "upsert",
                 !.loc = [aggregated |-> @.aggregated,
                          read |-> @.read,
                          is_new |-> ByManager(managers, tasks[t].manager_name) = <<>>]]]

\* lines 99-103: managers.update_one(..., upsert=True)
legacy_upsert(t) ==
  /\ tasks[t].kind = "legacy" /\ tasks[t].pc = "upsert"
  /\ UNCHANGED <<raw_responses, assessments, form_submissions, requests, now,
                 batch_result, payload, scored>>
  /\ LET manager_name == tasks[t].manager_name
         aggregated == tasks[t].loc.aggregated
     IN  /\ managers' =
              IF ByManager(managers, manager_name) = <<>>
              THEN Append(managers, aggregated)
              ELSE UpdateFirst(managers,
                               PositionsByManager(managers, manager_name),
                               aggregated)
         /\ written' = Wrote(PositionsByManager(managers, manager_name), t,
                             [kind |-> "legacy", read |-> tasks[t].loc.read])
         /\ tasks' = [tasks EXCEPT ![t] =
              IF @.loc.is_new THEN [@ EXCEPT !.pc = "created"]
              ELSE Finish(@, "aggregated")]

\* lines 105-115: created_at for a new manager, and the return
legacy_created(t) ==
  /\ tasks[t].kind = "legacy" /\ tasks[t].pc = "created"
  /\ UNCHANGED <<raw_responses, assessments, form_submissions, requests, now,
                 batch_result, payload, scored, written>>
  /\ managers' = UpdateFirst(managers,
                             PositionsByManager(managers, tasks[t].manager_name),
                             [created_at |-> DateTime(now)])
  /\ tasks' = [tasks EXCEPT ![t] = Finish(@, "aggregated")]

(***************************************************************************)
(* main.update_manager_aggregation_saas, one step per await.               *)
(* A coroutine: it runs on the event loop and yields at every await.       *)
(***************************************************************************)
\* lines 2272-2292: the $match/$group pipeline
saas_pipeline(t) ==
  /\ tasks[t].kind = "saas" /\ tasks[t].pc = "start"
  /\ UNCHANGED <<db_vars, requests, now, batch_result, payload, scored, written>>
  /\ LET result == pipeline_group(
            ByCompanyManager(assessments, tasks[t].company_id,
                             tasks[t].manager_name))
     IN  tasks' = [tasks EXCEPT ![t] =
           IF result = <<>> THEN Finish(@, "no action")
           ELSE [@ EXCEPT !.pc = "latest", !.loc = [agg |-> result[1]]]]

\* lines 2293-2299: find_one(sort=[("submission_time", -1)]); among the
\* documents with the latest time MongoDB may return any
saas_latest(t) ==
  /\ tasks[t].kind = "saas" /\ tasks[t].pc = "latest"
  /\ UNCHANGED <<db_vars, requests, now, batch_result, payload, scored, written>>
  /\ LET matched == ByCompanyManager(assessments, tasks[t].company_id,
                                     tasks[t].manager_name)
         newest == {i \in 1..Len(matched) :
                      \A j \in 1..Len(matched) :
                        matched[j].submission_time.t <= matched[i].submission_time.t}
     IN  IF matched = <<>>
         THEN tasks' = [tasks EXCEPT ![t] =
                [@ EXCEPT !.pc = "docs",
                          !.loc = [agg |-> @.agg,
                                   reporting_to |-> EmptyText]]]
         ELSE \E i \in newest :
                tasks' = [tasks EXCEPT ![t] =
                  [@ EXCEPT !.pc = "docs",
                            !.loc = [agg |-> @.agg,
                                     reporting_to |->
                                       Get(matched[i], "reporting_to", EmptyText)]]]

\* the orders in which find(...).sort("submission_time", 1) can return docs
SortedOrders(docs) ==
  {p \in [1..Len(docs) -> 1..Len(docs)] :
     /\ \A i, j \in 1..Len(docs) : i # j => p[i] # p[j]
     /\ \A i, j \in 1..Len(docs) :
          i < j => docs[p[i]].submission_time.t <= docs[p[j]].submission_time.t}

\* lines 2301-2366: find(...).sort(...).to_list, and manager_data
saas_docs(t) ==
  /\ tasks[t].kind = "saas" /\ tasks[t].pc = "docs"
  /\ UNCHANGED <<db_vars, requests, now, batch_result, payload, scored, written>>
  /\ LET found == PositionsByCompanyManager(assessments, tasks[t].company_id,
                                            tasks[t].manager_name)
         matched == Docs(assessments, found)
     IN  \E p \in SortedOrders(matched) :
           LET read == [i \in 1..Len(found) |-> found[p[i]]]
               assessment_docs == Docs(assessments, read)
               manager_data ==
                 saas_manager_data(tasks[t].company_id, tasks[t].manager_name,
                                   tasks[t].loc.agg, tasks[t].loc.reporting_to,
                                   assessment_docs, DateTime(now))
           IN  tasks' = [tasks EXCEPT ![t] =
                 [@ EXCEPT !.pc = "exists",
                           !.loc = [agg |-> @.agg,
                                    reporting_to |-> @.reporting_to,
                                    read |-> read,
                                    manager_data |-> manager_data]]]

\* lines 2368-2372: async_managers.find_one
saas_exists(t) ==
  /\ tasks[t].kind = "saas" /\ tasks[t].pc = "exists"
  /\ UNCHANGED <<db_vars, requests, now, batch_result, payload, scored, written>>
  /\ tasks' = [tasks EXCEPT ![t] =
       [@ EXCEPT !.pc = "write",
                 !.loc = [agg |-> @.agg,
                          reporting_to |-> @.reporting_to,
                          read |-> @.read,
                          manager_data |-> @.manager_data,
                          existing_manager |->
                            ByCompanyManager(managers, tasks[t].company_id,
                                             tasks[t].manager_name) # <<>>]]]

\* lines 2374-2387: update_one or insert_one; the except clause swallows
\* the DuplicateKeyError of a refused insert
saas_write(t) ==
  /\ tasks[t].kind = "saas" /\ tasks[t].pc = "write"
  /\ UNCHANGED <<raw_responses, assessments, form_submissions, requests, now,
                 batch_result, payload, scored>>
  /\ LET manager_data == tasks[t].loc.manager_data
         src == [kind |-> "saas", agg |-> tasks[t].loc.agg,
                 reporting_to |-> tasks[t].loc.reporting_to,
                 read |-> tasks[t].loc.read]
         hits == PositionsByCompanyManager(managers, tasks[t].company_id,
                                           tasks[t].manager_name)
         new_doc == SetFields(manager_data,
                              [id |-> Uuid("manager", t),
                               created_at |-> DateTime(now)])
     IN  IF tasks[t].loc.existing_manager
         THEN /\ managers' = UpdateFirst(managers, hits, manager_data)
              /\ written' = IF hits # <<>> THEN Wrote(hits, t, src)
                            ELSE written
              /\ tasks' = [tasks EXCEPT ![t] = Finish(@, "persisted")]
         ELSE IF ManagerInsertAllowed(new_doc)
         THEN /\ managers' = Append(managers, new_doc)
              /\ written' = Append(written,
                                   [by |-> t, src |-> src, prev |-> NoneValue])
              /\ tasks' = [tasks EXCEPT ![t] = Finish(@, "persisted")]
         ELSE /\ UNCHANGED <<managers, written>>
              /\ tasks' = [tasks EXCEPT ![t] = Finish(@, "swallowed")]

(***************************************************************************)
(* Calls that no submission triggers.                                      *)
(***************************************************************************)
\* the manager identities a caller can name: the stored ones, and one unknown
KnownManagers ==
  {raw_responses[i].manager_name : i \in 1..Len(raw_responses)}
    \cup {assessments[i].manager_name : i \in 1..Len(assessments)}
    \cup {<<"Nobody">>}

\* update_manager_aggregation(manager_name), as migrate_existing_data calls it
call_update_manager_aggregation(manager_name) ==
  /\ Calls < MaxCalls
  /\ tasks' = Append(tasks, NewTask("legacy", NoneValue, manager_name, "direct"))
  /\ UNCHANGED <<db_vars, requests, now, batch_result, payload, scored, written>>

\* update_manager_aggregation_saas(company_id, manager_name), awaited directly
call_update_manager_aggregation_saas(company_id, manager_name) ==
  /\ Calls < MaxCalls
  /\ tasks' = Append(tasks, NewTask("saas", company_id, manager_name, "direct"))
  /\ UNCHANGED <<db_vars, requests, now, batch_result, payload, scored, written>>

\* aggregate_manager_scores(assessments) on the stored responses of a manager
call_aggregate_manager_scores(manager_name) ==
  /\ LET read == PositionsByManager(raw_responses, manager_name)
     IN  batch_result' =
           [manager_name |-> manager_name,
            read |-> read,
            returned |-> aggregate_manager_scores(Docs(raw_responses, read),
                                                  DateTime(now))]
  /\ UNCHANGED <<db_vars, requests, tasks, now, payload, scored, written>>

Next ==
  \/ Tick
  \/ \E secret \in {FORM_SECRET, "guess"}, answers \in FormPayloads,
        submittedAt \in {NoneValue, StrStamp(now)} :
       google_form_webhook(secret, submittedAt, answers)
  \/ \E slug \in WebSlugs, manager_name \in WebManagers,
        reporting_to \in WebReportsTo, answers \in WebSheets,
        session_id \in SessionChoices :
       submit_check(slug, manager_name, reporting_to, answers, session_id)
  \/ \E r \in 1..Len(requests) : submit_insert(r)
  \/ \E r \in 1..Len(requests) : submit_finish(r)
  \/ \E t \in 1..Len(tasks) : legacy_find(t)
  \/ \E t \in 1..Len(tasks) : legacy_exists(t)
  \/ \E t \in 1..Len(tasks) : legacy_upsert(t)
  \/ \E t \in 1..Len(tasks) : legacy_created(t)
  \/ \E t \in 1..Len(tasks) : saas_pipeline(t)
  \/ \E t \in 1..Len(tasks) : saas_latest(t)
  \/ \E t \in 1..Len(tasks) : saas_docs(t)
  \/ \E t \in 1..Len(tasks) : saas_exists(t)
  \/ \E t \in 1..Len(tasks) : saas_write(t)
  \/ \E manager_name \in KnownManagers :
       call_update_manager_aggregation(manager_name)
  \/ \E slug \in CompanySlugs, manager_name \in KnownManagers :
       call_update_manager_aggregation_saas(CompanyId(slug), manager_name)
  \/ \E manager_name \in KnownManagers :
       call_aggregate_manager_scores(manager_name)

Spec == Init /\ [][Next]_vars

(***************************************************************************)
(* The service in operation: deliveries that arrive late, raw names in     *)
(* several spellings, database calls that fail, and the migration script.  *)
(***************************************************************************)
\* a run that ends by an exception of a database call keeps where it failed
Fail(task, ret) ==
  [task EXCEPT !.pc = "done", !.ret = ret, !.loc = [failed_at |-> task.pc]]

\* aggregator.py lines 117-121: a call of raw_responses or managers raises;
\* the except clause prints and raises again
legacy_storage_fails(t) ==
  /\ tasks[t].kind = "legacy"
  /\ tasks[t].pc \in {"start", "exists", "upsert", "created"}
  /\ tasks' = [tasks EXCEPT ![t] = Fail(@, "raised")]
  /\ UNCHANGED <<db_vars, requests, now, batch_result, payload, scored, written>>

\* main.py lines 2386-2387: a call of async_assessments or async_managers
\* raises; the except clause prints and the coroutine returns None
saas_storage_fails(t) ==
  /\ tasks[t].kind = "saas"
  /\ tasks[t].pc \in {"start", "latest", "docs", "exists", "write"}
  /\ tasks' = [tasks EXCEPT ![t] = Fail(@, "swallowed")]
  /\ UNCHANGED <<db_vars, requests, now, batch_result, payload, scored, written>>

(***************************************************************************)
(* aggregator.migrate_existing_data                                        *)
(***************************************************************************)
\* lines 154-160: the branch of the if/elif chain an answered label takes
MigrationKind(full_question) ==
  IF ContainsPhrase(full_question, ManagerNamePhrase) THEN "manager_name"
  ELSE IF ContainsPhrase(full_question, ReportToPhrase) THEN "reporting_to"
  ELSE "other"

\* a variant that writes the names as they were typed
MigrationName_as_typed(answers, kind) ==
  LET hits == {i \in 1..Len(answers) :
                 /\ answers[i][2] # <<>>
                 /\ MigrationKind(answers[i][1]) = kind}
  IN  IF hits = {} THEN EmptyText
      ELSE Strip(answers[MaxOf(hits)][2][1])

\* lines 145-160: the name the loop leaves in a variable, "" when no answered
\* label sets it
MigrationName(answers, kind) ==
  LET hits == {i \in 1..Len(answers) :
                 /\ answers[i][2] # <<>>
                 /\ MigrationKind(answers[i][1]) = kind}
  IN  IF hits = {} THEN EmptyText
      ELSE normalize_name(Strip(answers[MaxOf(hits)][2][1]))

\* lines 144-172: raw_responses.update_one on the _id of a response
migrate_response(response) ==
  IF MigrationName(Get(response, "raw_answers", <<>>), "manager_name") # EmptyText
  THEN SetFields(response,
         [manager_name |->
            MigrationName(Get(response, "raw_answers", <<>>), "manager_name"),
          reporting_to |->
            MigrationName(Get(response, "raw_answers", <<>>), "reporting_to")])
  ELSE response

\* the elements of a finite set, one after the other
RECURSIVE SeqOf(_)
SeqOf(S) ==
  IF S = {} THEN <<>>
  ELSE LET x == CHOOSE y \in S : TRUE IN <<x>> \o SeqOf(S \ {x})

\* lines 179-183: the $group on manager_name of the normalized responses,
\* without the empty name
unique_managers(responses) ==
  SeqOf({responses[i].manager_name : i \in 1..Len(responses)} \ {EmptyText})

\* lines 135-199: the names of every response are written again, then
\* update_manager_aggregation is called for every manager, here as runs of
\* their own
migrate_existing_data ==
  /\ Calls < MaxCalls
  /\ requests' = Append(requests, Done("migrate", 0))
  /\ raw_responses' =
       [i \in 1..Len(raw_responses) |-> migrate_response(raw_responses[i])]
  /\ tasks' = tasks \o
       [n \in 1..Len(unique_managers(raw_responses')) |->
          NewTask("legacy", NoneValue, unique_managers(raw_responses')[n],
                  "migration")]
  /\ UNCHANGED <<assessments, managers, form_submissions, now, batch_result,
                 payload, scored, written>>

NextService ==
  \/ Tick
  \/ \E answers \in ServiceFormPayloads, sent \in 0..now :
       google_form_webhook(FORM_SECRET, StrStamp(sent), answers)
  \/ \E slug \in CompanySlugs, manager_name \in ServiceWebManagers,
        reporting_to \in ServiceWebReportsTo, answers \in ServiceWebSheets,
        session_id \in SessionChoices :
       submit_check(slug, manager_name, reporting_to, answers, session_id)
  \/ \E r \in 1..Len(requests) : submit_insert(r)
  \/ \E r \in 1..Len(requests) : submit_finish(r)
  \/ \E t \in 1..Len(tasks) : legacy_find(t)
  \/ \E t \in 1..Len(tasks) : legacy_exists(t)
  \/ \E t \in 1..Len(tasks) : legacy_upsert(t)
  \/ \E t \in 1..Len(tasks) : legacy_created(t)
  \/ \E t \in 1..Len(tasks) : saas_pipeline(t)
  \/ \E t \in 1..Len(tasks) : saas_latest(t)
  \/ \E t \in 1..Len(tasks) : saas_docs(t)
  \/ \E t \in 1..Len(tasks) : saas_exists(t)
  \/ \E t \in 1..Len(tasks) : saas_write(t)
  \/ \E t \in 1..Len(tasks) : legacy_storage_fails(t)
  \/ \E t \in 1..Len(tasks) : saas_storage_fails(t)
  \/ migrate_existing_data
  \/ \E manager_name \in KnownManagers :
       call_aggregate_manager_scores(manager_name)

SpecService == Init /\ [][NextService]_vars

(***************************************************************************)
(* The door of the service: every way a submission is turned away, next to *)
(* the submissions that are stored and aggregated.                         *)
(***************************************************************************)
\* main.py lines 2118-2121 of submit_assessment: the request names a manager
\* and a company, and carries no token, a token other than the company's, or
\* a token that has expired.  _ensure_company_form_token writes the token of
\* the company to db["companies"] only, which is no part of the state here.
submit_link_refused(company_slug, manager_name) ==
  /\ Calls < MaxCalls
  /\ manager_name # EmptyText
  /\ company_slug \in CompanySlugs
  /\ requests' = Append(requests, Done("submit", 403))
  /\ UNCHANGED <<db_vars, tasks, now, batch_result, payload, scored, written>>

NextIntake ==
  \/ Tick
  \/ \E secret \in {FORM_SECRET, "guess"}, answers \in IntakeFormPayloads :
       google_form_webhook(secret, StrStamp(now), answers)
  \/ \E slug \in WebSlugs, manager_name \in WebManagers,
        reporting_to \in WebReportsTo, answers \in IntakeWebSheets,
        session_id \in SessionChoices :
       submit_check(slug, manager_name, reporting_to, answers, session_id)
  \/ \E slug \in WebSlugs, manager_name \in WebManagers :
       submit_link_refused(slug, manager_name)
  \/ \E r \in 1..Len(requests) : submit_insert(r)
  \/ \E r \in 1..Len(requests) : submit_finish(r)
  \/ \E t \in 1..Len(tasks) : legacy_find(t)
  \/ \E t \in 1..Len(tasks) : legacy_exists(t)
  \/ \E t \in 1..Len(tasks) : legacy_upsert(t)
  \/ \E t \in 1..Len(tasks) : legacy_created(t)
  \/ \E t \in 1..Len(tasks) : saas_pipeline(t)
  \/ \E t \in 1..Len(tasks) : saas_latest(t)
  \/ \E t \in 1..Len(tasks) : saas_docs(t)
  \/ \E t \in 1..Len(tasks) : saas_exists(t)
  \/ \E t \in 1..Len(tasks) : saas_write(t)
  \/ \E manager_name \in KnownManagers :
       call_aggregate_manager_scores(manager_name)

SpecIntake == Init /\ [][NextIntake]_vars

(***************************************************************************)
(* The scorer specification: the two scorers as functions of the answers.  *)
(* An answers dict is a base sheet followed by at most MaxExtraKeys        *)
(* further entries, its keys distinct.                                     *)
(***************************************************************************)
\* keys and values of the further entries of a Google form submission
FormExtraLabels ==
  {Txt("STR_1"), Txt("STR_2"), <<"STR_1", SP, "listen">>,
   <<"STR_3", SP, "your", SP, "manager">>, Txt("XYZ_9"), <<"listen">>,
   NameLabel, ReportLabel}
FormExtraValues ==
  {<<Txt("Always")>>, <<Txt("Never")>>, <<Txt("Maybe")>>, <<>>,
   << <<SP, "Sometimes", SP>> >>, <<Txt("ann")>>}

\* keys and values of the further entries of a web form submission
WebExtraKeys ==
  {Txt("STR_1"), Txt("STR_2"), Txt("STR_3"), Txt("STR_99"),
   <<"STR_1", SP, "listen">>, <<"listen">>}
WebExtraValues ==
  {Txt("Always"), Txt("Never"), Txt("Maybe"), <<"Always", SP>>}

\* a dict has one entry per key
DistinctKeys(d) == \A i, j \in 1..Len(d) : i # j => d[i][1] # d[j][1]

\* the dicts of at most MaxExtraKeys entries over the keys and the values
ExtraEntries(keys, values) ==
  UNION {{d \in [1..n -> keys \X values] : DistinctKeys(d)} :
           n \in 0..MaxExtraKeys}

FormScoringPayloads ==
  {p \in {[path |-> "form", answers |-> base \o extra] :
            base \in {<<>>, FormFullMax},
            extra \in ExtraEntries(FormExtraLabels, FormExtraValues)} :
     DistinctKeys(p.answers)}

WebScoringPayloads ==
  {p \in {[path |-> "web", answers |-> base \o extra] :
            base \in {<<>>, WebFullMax},
            extra \in ExtraEntries(WebExtraKeys, WebExtraValues)} :
     DistinctKeys(p.answers)}

InitScoring ==
  /\ raw_responses = <<>>
  /\ assessments = <<>>
  /\ managers = <<>>
  /\ form_submissions = <<>>
  /\ requests = <<>>
  /\ tasks = <<>>
  /\ now = 0
  /\ batch_result = NotCalled
  /\ \/ payload \in FormScoringPayloads
     \/ payload \in WebScoringPayloads
  /\ scored = NotCalled
  /\ written = <<>>

\* processor.process_form_answers(raw_answers)
call_process_form_answers ==
  /\ payload.path = "form"
  /\ scored' = [by |-> "process_form_answers",
                result |-> process_form_answers(payload.answers, DateTime(now)),
                subcategory_counts |-> process_form_counts(payload.answers)]
  /\ UNCHANGED <<db_vars, requests, tasks, now, batch_result, payload, written>>

\* lines 2132-2182 of main.submit_assessment on data.answers
call_score_submission ==
  /\ payload.path = "web"
  /\ scored' = [by |-> "submit_assessment",
                result |-> score_submission(payload.answers),
                question_count |-> submission_counts(payload.answers).question_count,
                subcategory_counts |->
                  submission_counts(payload.answers).subcategory_counts]
  /\ UNCHANGED <<db_vars, requests, tasks, now, batch_result, payload, written>>

NextScoring ==
  \/ call_process_form_answers
  \/ call_score_submission

SpecScoring == InitScoring /\ [][NextScoring]_vars

(***************************************************************************)
(* The function specification: normalize_name, get_subcategory_remark and  *)
(* the two scorers side by side, each applied to an argument of its own.   *)
(***************************************************************************)
\* longest name given to normalize_name, in pieces
MaxNameLen == 5

\* the arguments of normalize_name: a str of at most MaxNameLen pieces, the
\* pieces being words of mixed case and the blank, or None (nothing given)
NamePayloads ==
  LET pieces == {"ann", "ANN", "Lee", "mcKay", SP}
      texts == UNION {{t \in [1..n -> pieces] :
                         \A i \in 1..(n - 1) : t[i] = SP \/ t[i + 1] = SP} :
                        n \in 0..MaxNameLen}
  IN  {[path |-> "name", given |-> TRUE, name |-> t] : t \in texts}
        \cup {[path |-> "name", given |-> FALSE, name |-> EmptyText]}

\* the arguments of get_subcategory_remark: the behaviors of the catalog and
\* one it does not hold, the tripods and names that are none, and scores on
\* and next to the thresholds
RemarkPayloads ==
  {[path |-> "remark", behavior |-> behavior, score |-> score,
    tripod |-> tripod] :
     behavior \in AllBehaviors \cup {"Listening"},
     score \in {0, 599, 600, 799, 800, 900},
     tripod \in CategorySet \cup {"", "Trusting", "TASKING", "coaching"}}

\* mappings from question codes to options: one question alone, or any
\* answers to five questions of the three types, with or without the best
\* option for each of the other questions
Mappings ==
  LET codes == <<"STR_1", "STR_3", "STA_2", "STE_4", "STE_12">>
      rest == SelectSeq(SchemaCodes, LAMBDA code : code \notin Range(codes))
      rest_max == [i \in 1..Len(rest) |-> <<rest[i], MaxOption(rest[i])>>]
  IN  {<< <<code, option>> >> : code \in SchemaCodeSet, option \in Options}
        \cup {base \o SelectSeq([i \in 1..Len(codes) |-> <<codes[i], f[i]>>],
                                LAMBDA e : e[2] # "") :
                base \in {<<>>, rest_max},
                f \in [1..Len(codes) -> Options \cup {""}]}
MappingPayloads == {[path |-> "both", mapping |-> m] : m \in Mappings}

\* the mapping as the Google form sends it: label -> list of answers
AsFormAnswers(mapping) ==
  [i \in 1..Len(mapping) |-> <<Txt(mapping[i][1]), <<Txt(mapping[i][2])>> >>]

\* the mapping as the web form sends it: question id -> option
AsWebAnswers(mapping) ==
  [i \in 1..Len(mapping) |-> <<Txt(mapping[i][1]), Txt(mapping[i][2])>>]

InitFunctions ==
  /\ raw_responses = <<>>
  /\ assessments = <<>>
  /\ managers = <<>>
  /\ form_submissions = <<>>
  /\ requests = <<>>
  /\ tasks = <<>>
  /\ now = 0
  /\ batch_result = NotCalled
  /\ \/ payload \in NamePayloads
     \/ payload \in RemarkPayloads
     \/ payload \in MappingPayloads
  /\ scored = NotCalled
  /\ written = <<>>

\* processor.normalize_name(name), and normalize_name of what it returned;
\* None fails "if not name" as "" does
call_normalize_name ==
  /\ payload.path = "name"
  /\ scored' =
       [by |-> "normalize_name",
        result |-> IF payload.given THEN normalize_name(payload.name)
                   ELSE EmptyText,
        again |-> IF payload.given
                  THEN normalize_name(normalize_name(payload.name))
                  ELSE normalize_name(EmptyText)]
  /\ UNCHANGED <<db_vars, requests, tasks, now, batch_result, payload, written>>

\* processor.get_subcategory_remark(behavior, score, tripod)
call_get_subcategory_remark ==
  /\ payload.path = "remark"
  /\ scored' =
       [by |-> "get_subcategory_remark",
        result |-> get_subcategory_remark(payload.behavior, payload.score,
                                          payload.tripod)]
  /\ UNCHANGED <<db_vars, requests, tasks, now, batch_result, payload, written>>

\* process_form_answers and the scorer of submit_assessment on one mapping
call_both_scorers ==
  /\ payload.path = "both"
  /\ scored' =
       [by |-> "both scorers",
        form |-> process_form_answers(AsFormAnswers(payload.mapping),
                                      DateTime(now)),
        web |-> score_submission(AsWebAnswers(payload.mapping))]
  /\ UNCHANGED <<db_vars, requests, tasks, now, batch_result, payload, written>>

NextFunctions ==
  \/ call_normalize_name
  \/ call_get_subcategory_remark
  \/ call_both_scorers

SpecFunctions == InitFunctions /\ [][NextFunctions]_vars

(***************************************************************************)
(* Properties of the aggregators.                                          *)
(***************************************************************************)
\* the aggregation path that wrote document k of the manager collection last
WriterKind(k) == written[k].src.kind

\* sum of the four subcategory averages of a category, in hundredths
SubcategorySum(record, category) ==
  SumSeq([i \in 1..Len(SUBCATEGORY_ORDER(category)) |->
            record.subcategory_averages[SUBCATEGORY_ORDER(category)[i]]])

\* a record carries subcategory averages and each of its category averages
\* is the sum of the four subcategory averages of the category
CategoryIdentity(record, kind) ==
  /\ "subcategory_averages" \in DOMAIN record
  /\ \A category \in CategorySet :
       IF kind = "legacy"
       THEN record.category_averages[category].num * 100
              = SubcategorySum(record, category)
                  * record.category_averages[category].den
       ELSE record.category_averages[category]
              = SubcategorySum(record, category)

\* what aggregate_manager_scores returned is an aggregate record
BatchAggregated ==
  /\ batch_result # NotCalled
  /\ batch_result.returned # NoneValue
  /\ "raised" \notin DOMAIN batch_result.returned

\* C1: in every aggregate record that one of the three aggregators produces,
\* each category average equals the sum of the averages of the four
\* subcategories of that category, rounded to two decimals.
C1_CategoryAverageIsSubcategorySum ==
  /\ \A k \in 1..Len(managers) : CategoryIdentity(managers[k], WriterKind(k))
  /\ BatchAggregated => CategoryIdentity(batch_result.returned, "batch")

\* every handler call and every aggregation run has finished, no run by an
\* exception
Quiescent ==
  /\ \A r \in 1..Len(requests) : requests[r].pc = "done"
  /\ \A t \in 1..Len(tasks) :
       /\ tasks[t].pc = "done"
       /\ tasks[t].ret \in {"None", "no action", "aggregated", "persisted"}

\* the stored responses of the identity of document k, on the path that wrote
\* the document last
StoredCount(k) ==
  IF WriterKind(k) = "legacy"
  THEN Len(ByManager(raw_responses, managers[k].manager_name))
  ELSE Len(ByCompanyManager(assessments, managers[k].company_id,
                            managers[k].manager_name))

\* C2: once every aggregation task scheduled by the submissions for one
\* manager has finished, the persisted aggregate counts every stored
\* response of that manager: no run that read fewer responses wrote last.
C2_TasksConverge ==
  Quiescent =>
    \A k \in 1..Len(managers) : managers[k].total_assessments = StoredCount(k)

\* the fields an aggregator stamps with the wall clock of the run
Stamps == {"last_updated", "updated_at", "created_at"}

SameButStamps(before, after) ==
  /\ DOMAIN after \ Stamps = DOMAIN before \ Stamps
  /\ \A f \in DOMAIN after \ Stamps : after[f] = before[f]

\* this step, a run writes document k having read what the run that wrote it
\* before had read
Rerun(k) ==
  /\ written'[k].by # written[k].by
  /\ written'[k].src = written[k].src

\* this step, aggregate_manager_scores is called again on the same list
BatchRerun ==
  /\ batch_result # NotCalled
  /\ batch_result' # batch_result
  /\ batch_result'.manager_name = batch_result.manager_name
  /\ batch_result'.read = batch_result.read

WebSubcategorySum(read, behavior) ==
  SumSeq([i \in 1..Len(read) |->
            assessments[read[i]].subcategory_scores[behavior]])

FormSubcategorySum(read, behavior) ==
  SumSeq([i \in 1..Len(read) |->
            raw_responses[read[i]].processed.subcategory_totals[behavior]])

\* C5: each subcategory average of an aggregate is round(S / n, 2), S the
\* sum of the subcategory score over the responses aggregated and n
\* total_assessments, which counts every stored response of the manager,
\* the responses without answers too.
C5_SubcategoryAverageOverAllResponses ==
  /\ [](/\ \A k \in 1..Len(managers) :
             WriterKind(k) = "saas" =>
               /\ managers[k].total_assessments
                    = written[k].src.agg.total_assessments
               /\ \A behavior \in AllBehaviors :
                    managers[k].subcategory_averages[behavior]
                      = Round2(WebSubcategorySum(written[k].src.read, behavior),
                               managers[k].total_assessments)
        /\ BatchAggregated =>
             /\ batch_result.returned.total_assessments
                  = Len(batch_result.read)
             /\ \A behavior \in AllBehaviors :
                  batch_result.returned.subcategory_averages[behavior]
                    = Round2(FormSubcategorySum(batch_result.read, behavior),
                             Len(batch_result.read)))
  /\ [][\A t \in 1..Len(tasks) :
          (tasks[t].kind = "saas" /\ tasks[t].pc = "start"
             /\ tasks'[t].pc = "latest")
            => tasks'[t].loc.agg.total_assessments
                 = Len(ByCompanyManager(assessments, tasks[t].company_id,
                                        tasks[t].manager_name))]_vars

\* a response of the web form without a scored answer
ZeroScored(d) ==
  /\ \A behavior \in AllBehaviors : d.subcategory_scores[behavior] = 0
  /\ \A category \in CategorySet : d.category_scores[category] = 0

\* one response answers every question with its best option, one answers
\* nothing: two assessments, every subcategory average 4.5
C5_MaximumAndEmptyAggregated ==
  \E k \in 1..Len(managers) :
    /\ WriterKind(k) = "saas"
    /\ managers[k].total_assessments = 2
    /\ \E i \in Range(written[k].src.read) : ZeroScored(assessments[i])
    /\ \A behavior \in AllBehaviors :
         managers[k].subcategory_averages[behavior] = 450

\* the response at position i of its collection answers no question
ZeroAnswered(kind, i) ==
  IF kind = "saas" THEN ZeroScored(assessments[i])
  ELSE raw_responses[i].processed.meta.answered_questions = 0

\* a run that read new read the responses that a run that read old had read
\* and, after them, one response that answers no question
AddsEmpty(old, new) ==
  /\ old.kind = new.kind
  /\ new.read # <<>>
  /\ new.read = Append(old.read, new.read[Len(new.read)])
  /\ ZeroAnswered(new.kind, new.read[Len(new.read)])
  /\ new.kind = "saas" =>
       /\ old.agg.total_assessments = Len(old.read)
       /\ new.agg.total_assessments = Len(new.read)

\* this step, a run writes document k having read one more response, an
\* empty one, than the run that wrote the document before
Extended(k) ==
  /\ written'[k].by # written[k].by
  /\ AddsEmpty(written[k].src, written'[k].src)

\* this step, aggregate_manager_scores is called on the list of the call
\* before and one more response, an empty one
BatchExtended ==
  /\ batch_result # NotCalled
  /\ batch_result'.manager_name = batch_result.manager_name
  /\ AddsEmpty([kind |-> "batch", read |-> batch_result.read],
               [kind |-> "batch", read |-> batch_result'.read])
  /\ "subcategory_averages" \in DOMAIN batch_result.returned
  /\ "subcategory_averages" \in DOMAIN batch_result'.returned

\* C6 (as the code has it): adding a response without answers to the n
\* stored responses of a manager and aggregating again leaves every total
\* unchanged, counts the response in total_assessments and divides by n + 1:
\* each subcategory average becomes round(S / (n + 1), 2), each category
\* average of update_manager_aggregation the mean over n + 1 responses.
C6_EmptyResponseCountsInDenominator ==
  [][/\ \A k \in 1..Len(managers) :
          Extended(k) =>
            LET before == managers[k]
                after == managers'[k]
            IN  /\ after.total_assessments = before.total_assessments + 1
                /\ after.category_totals = before.category_totals
                /\ IF WriterKind(k) = "legacy"
                   THEN \A category \in CategorySet :
                          after.category_averages[category]
                            = [num |-> before.category_totals[category],
                               den |-> before.total_assessments + 1]
                   ELSE /\ after.subcategory_totals = before.subcategory_totals
                        /\ \A behavior \in AllBehaviors :
                             after.subcategory_averages[behavior]
                               = Round2(before.subcategory_totals[behavior],
                                        before.total_assessments + 1)
                        /\ CategoryIdentity(after, "saas")
     /\ BatchExtended =>
          LET before == batch_result.returned
              after == batch_result'.returned
          IN  /\ after.total_assessments = before.total_assessments + 1
              /\ after.subcategory_totals = before.subcategory_totals
              /\ after.category_totals = before.category_totals
              /\ \A behavior \in AllBehaviors :
                   after.subcategory_averages[behavior]
                     = Round2(before.subcategory_totals[behavior],
                              before.total_assessments + 1)
              /\ CategoryIdentity(after, "batch")]_vars

\* a run has aggregated the responses of the run before and an empty one,
\* for a manager whose totals are not zero
C6_EmptyResponseAggregated ==
  \E k \in 1..Len(managers) :
    /\ AddsEmpty(written[k].prev, written[k].src)
    /\ managers[k].category_totals["trusting"] > 0

\* C6 (as the specification has it): adding a response without answers and
\* aggregating again leaves every subcategory average and every category
\* average unchanged.
C6_EmptyResponseLeavesAverages ==
  [][/\ \A k \in 1..Len(managers) :
          Extended(k) =>
            /\ managers'[k].category_averages = managers[k].category_averages
            /\ WriterKind(k) = "saas" =>
                 managers'[k].subcategory_averages
                   = managers[k].subcategory_averages
     /\ BatchExtended =>
          /\ batch_result'.returned.subcategory_averages
               = batch_result.returned.subcategory_averages
          /\ batch_result'.returned.category_averages
               = batch_result.returned.category_averages]_vars

\* the identity of run t has no stored response
NoStored(t) ==
  IF tasks[t].kind = "legacy"
  THEN ByManager(raw_responses, tasks[t].manager_name) = <<>>
  ELSE ByCompanyManager(assessments, tasks[t].company_id,
                        tasks[t].manager_name) = <<>>

\* C7: an aggregator invoked for an identity, or on a list, without stored
\* responses returns its not-found outcome (None, "no action") and leaves the
\* manager collection as it is; no aggregate record counts zero assessments.
C7_NothingStoredNothingWritten ==
  /\ [](\A k \in 1..Len(managers) : managers[k].total_assessments > 0)
  /\ [][/\ \A t \in 1..Len(tasks) :
             (tasks[t].pc = "start" /\ tasks'[t].pc # "start" /\ NoStored(t))
               => /\ tasks'[t].pc = "done"
                  /\ tasks'[t].ret = IF tasks[t].kind = "legacy"
                                     THEN "None" ELSE "no action"
                  /\ managers' = managers
        /\ (batch_result' # batch_result /\ batch_result'.read = <<>>)
             => /\ batch_result'.returned = NoneValue
                /\ managers' = managers]_vars

\* a run for an identity without responses has finished next to a stored
\* aggregate
C7_NotFoundReturned ==
  \E t \in 1..Len(tasks) :
    /\ tasks[t].pc = "done"
    /\ tasks[t].ret \in {"None", "no action"}
    /\ NoStored(t)
    /\ managers # <<>>

(***************************************************************************)
(* Properties of the scorers.                                              *)
(***************************************************************************)
\* the polarity table: direct and reconfirmation questions score the options
\* upwards, reverse questions downwards
PolarityScore(q_type, option) ==
  IF q_type = "reverse"
  THEN CASE option = "Never" -> 3 [] option = "Sometimes" -> 2
         [] option = "Always" -> 1
  ELSE CASE option = "Never" -> 1 [] option = "Sometimes" -> 2
         [] option = "Always" -> 3

\* the questions of the web catalog
WebQuestions == UNION {Range(ASSESSMENT_QUESTIONS(c)) : c \in CategorySet}

\* the scores of the entries of a web form dict whose key is the id of a
\* question of a category and whose value is one of the three options
PolaritySum(answers, category) ==
  SumSeq([i \in 1..Len(answers) |->
            LET hits == {q \in WebQuestions :
                           /\ Txt(q.id) = answers[i][1]
                           /\ q.category = category
                           /\ Len(answers[i][2]) = 1
                           /\ answers[i][2][1] \in Options}
            IN  IF hits = {} THEN 0
                ELSE PolarityScore((CHOOSE q \in hits : TRUE).type,
                                   answers[i][2][1])])

\* C4: both catalogs score Never/Sometimes/Always as 1/2/3 for direct and
\* reconfirmation questions and as 3/2/1 for reverse questions, and both
\* scorers give each scored answer the score of that table.
C4_PolarityOfScores ==
  /\ \A code \in SchemaCodeSet, option \in Options :
       /\ QUESTION_SCHEMA(code).type \in {"direct", "reconfirmation", "reverse"}
       /\ SCORE_MAP(QUESTION_SCHEMA(code).type)[option]
            = PolarityScore(QUESTION_SCHEMA(code).type, option)
  /\ \A q \in WebQuestions, option \in Options :
       /\ q.type \in {"direct", "reconfirmation", "reverse"}
       /\ q.scores[option] = PolarityScore(q.type, option)
  /\ (scored # NotCalled /\ payload.path = "form") =>
       \A code \in DOMAIN scored.result.per_question_scores :
         LET entry == scored.result.per_question_scores[code]
         IN  entry.score = PolarityScore(entry.type, entry.answer[1])
  /\ (scored # NotCalled /\ payload.path = "web") =>
       \A category \in CategorySet :
         scored.result.category_scores[category]
           = PolaritySum(payload.answers, category)

\* a reverse question answered Never has been scored 3
C4_ReverseNeverScored ==
  /\ scored # NotCalled
  /\ payload.path = "form"
  /\ "STR_3" \in DOMAIN scored.result.per_question_scores
  /\ scored.result.per_question_scores["STR_3"].type = "reverse"
  /\ scored.result.per_question_scores["STR_3"].answer = Txt("Never")
  /\ scored.result.per_question_scores["STR_3"].score = 3

\* a key resolves to a question code of the catalog of its scorer
Resolves(path, key) ==
  IF path = "form"
  THEN Split(key) # <<>> /\ Split(key)[1] \in SchemaCodeSet
  ELSE \E q \in WebQuestions : Txt(q.id) = key

\* the answers without the entries whose key resolves to no question code
ResolvedOnly(p) ==
  SelectSeq(p.answers, LAMBDA e : Resolves(p.path, e[1]))

\* what process_form_answers returns about the questions
FormOutcome(result) ==
  [per_question_scores |-> result.per_question_scores,
   segment_totals |-> result.segment_totals,
   category_totals |-> result.category_totals,
   subcategory_totals |-> result.subcategory_totals,
   subcategory_averages |-> result.subcategory_averages,
   overall_score |-> result.overall_score,
   answered_questions |-> result.meta.answered_questions,
   missing_questions |-> result.meta.missing_questions]

\* the scorer of the payload returns for the answers what it returned for
\* the payload
ReturnsAs(answers) ==
  IF payload.path = "form"
  THEN FormOutcome(scored.result)
         = FormOutcome(process_form_answers(answers, DateTime(now)))
  ELSE scored.result = score_submission(answers)

\* ... and counts the answered questions as it counted them for the payload
CountsAs(answers) ==
  IF payload.path = "form"
  THEN scored.subcategory_counts = process_form_counts(answers)
  ELSE /\ scored.question_count = submission_counts(answers).question_count
       /\ scored.subcategory_counts
            = submission_counts(answers).subcategory_counts

\* C8: an entry whose key resolves to no question code of the catalog has no
\* effect: each scorer returns for a payload what it returns for the payload
\* without those entries.
C8_UnknownKeysIgnored ==
  scored # NotCalled =>
    ReturnsAs(ResolvedOnly(payload)) /\ CountsAs(ResolvedOnly(payload))

\* a payload with a key that resolves to no question code has been scored,
\* and not to zero
C8_UnknownKeyScored ==
  /\ scored # NotCalled
  /\ ResolvedOnly(payload) # payload.answers
  /\ IF payload.path = "form" THEN scored.result.overall_score > 0
     ELSE scored.result.category_scores["trusting"] > 0

\* the entry answers a catalog question with none of its three options
InvalidOption(path, e) ==
  /\ Resolves(path, e[1])
  /\ IF path = "form"
     THEN \/ e[2] = <<>>
          \/ ~(Len(Strip(e[2][1])) = 1 /\ Strip(e[2][1])[1] \in Options)
     ELSE ~(Len(e[2]) = 1 /\ e[2][1] \in Options)

\* the answers without the entries that select no valid option
ValidOnly(p) ==
  SelectSeq(p.answers, LAMBDA e : ~InvalidOption(p.path, e))

\* C9: a catalog question whose selected option is none of Never, Sometimes,
\* Always is treated as unanswered in both scorers: each returns for a payload
\* the totals and averages it returns for the payload without that entry.
C9_InvalidOptionIsUnanswered ==
  scored # NotCalled => ReturnsAs(ValidOnly(payload))

\* C10: process_form_answers gives each question a score in 1..3, and no
\* scorer gives a subcategory a total above 9 or a category a total above 36.
C10_TotalsBounded ==
  scored # NotCalled =>
    IF payload.path = "form"
    THEN /\ \A code \in DOMAIN scored.result.per_question_scores :
              scored.result.per_question_scores[code].score \in 1..3
         /\ \A behavior \in AllBehaviors :
              scored.result.subcategory_totals[behavior] <= 9
         /\ \A category \in CategorySet :
              scored.result.category_totals[category] <= 36
    ELSE /\ \A behavior \in AllBehaviors :
              scored.result.subcategory_scores[behavior] <= 9
         /\ \A category \in CategorySet :
              scored.result.category_scores[category] <= 36

(***************************************************************************)
(* Properties of the service in operation.                                 *)
(***************************************************************************)
\* the submission time stamp and the reporting_to of the response at
\* position i of the collection of a path
ResponseStamp(kind, i) ==
  IF kind = "saas" THEN assessments[i].submission_time
  ELSE OrElse(Get(raw_responses[i], "submittedAt", NoneValue),
              Get(raw_responses[i], "created_at", NoneValue))

ResponseReportingTo(kind, i) ==
  IF kind = "saas" THEN assessments[i].reporting_to
  ELSE raw_responses[i].processed.manager_info.reporting_to

\* the reporting_to of the responses read that no response read is later than
LatestReportingTo(kind, read) ==
  {ResponseReportingTo(kind, i) :
     i \in {j \in Range(read) :
              \A l \in Range(read) :
                ResponseStamp(kind, l).t <= ResponseStamp(kind, j).t}}

\* C11: the reporting_to of an aggregate is the reporting_to of the response
\* with the latest submission time stamp among the responses aggregated, in
\* whatever order storage returns them or the caller supplies them.
C11_ReportingToOfLatestResponse ==
  /\ \A k \in 1..Len(managers) :
       managers[k].reporting_to
         \in LatestReportingTo(WriterKind(k), written[k].src.read)
  /\ BatchAggregated =>
       batch_result.returned.reporting_to
         \in LatestReportingTo("batch", batch_result.read)

\* the name a submission was made under: the answer to the name question of
\* a Google form response, the manager_name of the body of a web form one
RawManagerName(kind, i) ==
  IF kind = "saas" THEN assessments[i].manager_name
  ELSE raw_responses[i].raw_manager_name

\* C12: two submissions whose raw manager names have the same normalize_name
\* are stored under the same manager_name, on each path, and no two
\* aggregate records of a company stand for one normalized name.
C12_SameNormalizedNameSameIdentity ==
  /\ \A i, j \in 1..Len(raw_responses) :
       normalize_name(RawManagerName("legacy", i))
           = normalize_name(RawManagerName("legacy", j))
         => raw_responses[i].manager_name = raw_responses[j].manager_name
  /\ \A i, j \in 1..Len(assessments) :
       (/\ assessments[i].company_id = assessments[j].company_id
        /\ normalize_name(RawManagerName("saas", i))
             = normalize_name(RawManagerName("saas", j)))
         => assessments[i].manager_name = assessments[j].manager_name
  /\ \A k, l \in 1..Len(managers) :
       (/\ Get(managers[k], "company_id", NoneValue)
             = Get(managers[l], "company_id", NoneValue)
        /\ normalize_name(managers[k].manager_name)
             = normalize_name(managers[l].manager_name))
         => k = l

\* document k of the manager collection is the aggregate of the identity of
\* run t: the manager_name of the run and its company, none for a run of
\* update_manager_aggregation
OwnAggregate(t, k) ==
  /\ managers[k].manager_name = tasks[t].manager_name
  /\ Get(managers[k], "company_id", NoneValue) = tasks[t].company_id

\* C13: a step of an aggregation run changes no aggregate record but that of
\* the (company, manager) identity of the run.
C13_RunChangesOwnAggregateOnly ==
  [][\A t \in 1..Len(tasks) :
       tasks'[t] # tasks[t] =>
         \A k \in 1..Len(managers) :
           ~OwnAggregate(t, k) => managers'[k] = managers[k]]_vars

\* run t has ended by the exception of a database call
RunFailed(t) ==
  /\ tasks[t].pc = "done"
  /\ "failed_at" \in DOMAIN tasks[t].loc

\* C14: a run that a failing database call has ended has written nothing:
\* the aggregate of its manager is what the runs before left, or still
\* absent, and holds no field that the failed run computed.
C14_FailedRunWroteNothing ==
  \A t \in 1..Len(tasks) :
    RunFailed(t) => \A k \in 1..Len(managers) : written[k].by # t

\* C15: a run that a failing database call has ended, while it loaded the
\* responses or persisted the aggregate, ends by raising to its caller; no
\* run catches the exception and returns as a run without a failure does.
C15_StorageFailureRaised ==
  \A t \in 1..Len(tasks) :
    tasks[t].pc = "done" =>
      /\ RunFailed(t) => tasks[t].ret = "raised"
      /\ tasks[t].ret # "swallowed"

\* C16: a stored response never changes: every step leaves each response of
\* the two response collections as it was inserted, the steps of the
\* aggregation runs and of migrate_existing_data too.
C16_StoredResponsesImmutable ==
  [][/\ Len(raw_responses') >= Len(raw_responses)
     /\ \A i \in 1..Len(raw_responses) : raw_responses'[i] = raw_responses[i]
     /\ Len(assessments') >= Len(assessments)
     /\ \A i \in 1..Len(assessments) : assessments'[i] = assessments[i]]_vars

\* the migration has run over a stored response whose name was not typed in
\* its normalized form, and has started the aggregation of its manager
C16_MigrationRanOverResponses ==
  /\ \E r \in 1..Len(requests) : requests[r].kind = "migrate"
  /\ \E t \in 1..Len(tasks) : tasks[t].origin = "migration"
  /\ \E i \in 1..Len(raw_responses) :
       raw_responses[i].raw_manager_name # raw_responses[i].manager_name

(***************************************************************************)
(* Further properties of the scorers.                                      *)
(***************************************************************************)
\* the entry of a Google form dict names a catalog question by its first
\* word and selects one of the three options
NamesQuestion(e) ==
  /\ Split(e[1]) # <<>>
  /\ Split(e[1])[1] \in SchemaCodeSet
  /\ e[2] # <<>>
  /\ Len(Strip(e[2][1])) = 1
  /\ Strip(e[2][1])[1] \in Options

\* C17: process_form_answers scores every entry whose label starts with a
\* catalog question code and whose answer is Never, Sometimes or Always,
\* whatever the rest of the label says: the question is among the scored
\* ones, and when one entry names it, with the score of its polarity.
C17_EveryCodedLabelScored ==
  (scored # NotCalled /\ payload.path = "form") =>
    \A i \in 1..Len(payload.answers) :
      NamesQuestion(payload.answers[i]) =>
        LET code == Split(payload.answers[i][1])[1]
            named == {j \in 1..Len(payload.answers) :
                        /\ NamesQuestion(payload.answers[j])
                        /\ Split(payload.answers[j][1])[1] = code}
        IN  /\ code \in DOMAIN scored.result.per_question_scores
            /\ named = {i} =>
                 scored.result.per_question_scores[code].score
                   = PolarityScore(QUESTION_SCHEMA(code).type,
                                   Strip(payload.answers[i][2][1])[1])

(***************************************************************************)
(* Further properties of the aggregators.                                  *)
(***************************************************************************)
\* the points of confidence an assessment adds on the path of a writer
ConfidenceStep(kind) == IF kind = "saas" THEN 5 ELSE 10

\* this step, a run writes document k after a run for the same identity
RewrittenForSameIdentity(k) ==
  /\ written'[k].by # written[k].by
  /\ tasks[written'[k].by].kind = tasks[written[k].by].kind
  /\ tasks[written'[k].by].company_id = tasks[written[k].by].company_id
  /\ tasks[written'[k].by].manager_name = tasks[written[k].by].manager_name

\* the score of 10 or of 5 points an assessment never goes down as the
\* assessments grow in number, and never goes above 100
ConfidenceNonDecreasingAndCapped ==
  \A per_assessment \in {5, 10} :
    \A n, m \in 0..MaxAssessments :
      /\ confidence_score(m, per_assessment) <= 100
      /\ n <= m => confidence_score(n, per_assessment)
                     <= confidence_score(m, per_assessment)

\* C18: on each aggregation path the confidence score is a non-decreasing
\* function of total_assessments that never exceeds 100; every aggregate
\* carries the score of its total_assessments, and a re-aggregation of a
\* manager that counts as many responses or more never lowers it.
C18_ConfidenceMonotoneAndCapped ==
  /\ [](/\ ConfidenceNonDecreasingAndCapped
        /\ \A k \in 1..Len(managers) :
             /\ managers[k].confidence_score <= 100
             /\ managers[k].confidence_score
                  = confidence_score(managers[k].total_assessments,
                                     ConfidenceStep(WriterKind(k)))
        /\ BatchAggregated =>
             /\ batch_result.returned.confidence_score <= 100
             /\ batch_result.returned.confidence_score
                  = confidence_score(batch_result.returned.total_assessments,
                                     ConfidenceStep("batch")))
  /\ [][\A k \in 1..Len(managers) :
          (/\ RewrittenForSameIdentity(k)
           /\ managers[k].total_assessments <= managers'[k].total_assessments)
            => managers[k].confidence_score <= managers'[k].confidence_score]_vars

\* a manager has been aggregated again with one response more, and the
\* confidence score has gone up
C18_ConfidenceRaised ==
  \E k \in 1..Len(managers) :
    /\ written[k].prev # NoneValue
    /\ written[k].prev.kind = written[k].src.kind
    /\ Len(written[k].prev.read) = 1
    /\ Len(written[k].src.read) = 2
    /\ managers[k].total_assessments = 2
    /\ managers[k].confidence_score = 2 * ConfidenceStep(WriterKind(k))

(***************************************************************************)
(* Properties of the classifier.                                           *)
(***************************************************************************)
\* the band of an average, in hundredths, with thresholds closed below
BandOf(average) ==
  CASE average >= 800 -> "green"
    [] average >= 600 /\ average < 800 -> "amber"
    [] average < 600 -> "red"

\* the classifier on every average of two decimals from 0 to 9
BandsClosedBelow ==
  /\ \A average \in 0..900 : _score_band(average) = BandOf(average)
  /\ _score_band(800) = "green"
  /\ _score_band(799) = "amber"
  /\ _score_band(600) = "amber"
  /\ _score_band(599) = "red"

\* C19: a subcategory average is banded green iff it is 8 or more, amber iff
\* it is 6 or more and less than 8, red iff it is less than 6 (8.0 green,
\* 7.99 amber, 6.0 amber, 5.99 red), and the remark of each subcategory of
\* a scored response carries the band of its average.
C19_BandThresholdsClosedBelow ==
  /\ BandsClosedBelow
  /\ (scored # NotCalled /\ payload.path = "form") =>
       \A tripod \in CategorySet :
         \A behavior \in Range(SUBCATEGORY_ORDER(tripod)) :
           LET remark == scored.result.subcategory_remarks[tripod][behavior]
           IN  /\ remark.band
                    = BandOf(scored.result.subcategory_averages[behavior])
               /\ remark.remark = SUBCATEGORY_REMARKS(tripod)[behavior][remark.band]

\* a scored response has a subcategory at 6.0 exactly, banded amber, next to
\* red ones
C19_AverageOnThreshold ==
  /\ scored # NotCalled
  /\ payload.path = "form"
  /\ \E tripod \in CategorySet :
       \E behavior, other \in Range(SUBCATEGORY_ORDER(tripod)) :
         /\ scored.result.subcategory_averages[behavior] = 600
         /\ scored.result.subcategory_remarks[tripod][behavior].band = "amber"
         /\ scored.result.subcategory_remarks[tripod][other].band = "red"

\* the payload answers the question of the label with a name
NamePresent(phrase) ==
  \E i \in 1..Len(payload.answers) :
    /\ ContainsPhrase(payload.answers[i][1], phrase)
    /\ payload.answers[i][2] # <<>>
    /\ Strip(payload.answers[i][2][1]) # EmptyText

\* C20: is_complete_response of a scored Google form response is true only
\* when each of the 36 catalog questions has a score and the submission
\* names the manager and whom the manager reports to; an empty answer map
\* is scored to totals of zero and is not complete.
C20_CompleteOnlyWhenAllScoredAndNamed ==
  (scored # NotCalled /\ payload.path = "form") =>
    /\ scored.result.meta.is_complete_response =>
         /\ Len(SchemaCodes) = 36
         /\ SchemaCodeSet \subseteq DOMAIN scored.result.per_question_scores
         /\ scored.result.meta.answered_questions = 36
         /\ NamePresent(ManagerNamePhrase)
         /\ NamePresent(ReportToPhrase)
    /\ payload.answers = <<>> =>
         /\ ~scored.result.meta.is_complete_response
         /\ scored.result.overall_score = 0
         /\ \A category \in CategorySet :
              scored.result.category_totals[category] = 0
         /\ \A behavior \in AllBehaviors :
              scored.result.subcategory_totals[behavior] = 0
         /\ \A segment \in {"STR", "STA", "STE"} :
              scored.result.segment_totals[segment] = 0

\* a response that answers the 36 questions and gives both names has been
\* scored as complete
C20_CompleteResponseScored ==
  /\ scored # NotCalled
  /\ payload.path = "form"
  /\ scored.result.meta.is_complete_response
  /\ Len(payload.answers) = 38

(***************************************************************************)
(* C21: one response with the twelve trusting questions at their best      *)
(***************************************************************************)
TrustingBehaviors == Range(SUBCATEGORY_ORDER("trusting"))

\* the only response a run read answers the twelve trusting questions, each
\* with its best option, and no other question
OnlyTrustingMaximum(kind, read) ==
  /\ Len(read) = 1
  /\ IF kind = "saas"
     THEN assessments[read[1]].answers = WebTrustingMax
     ELSE \E name \in FormNames, reports_to \in FormReportsTo :
            raw_responses[read[1]].raw_answers
              = FormAnswers(name, reports_to, FormTrustingMax)

\* every trusting subcategory at 9.0 and the category at 36.0
TrustingAtMaximum(record) ==
  /\ \A behavior \in TrustingBehaviors :
       record.subcategory_averages[behavior] = 900
  /\ record.category_averages["trusting"] = 3600

\* C21: a manager whose only response answers the twelve trusting questions
\* with Always on the direct and reconfirmation items and Never on the
\* reverse items gets 9.0 for each of the four trusting subcategories and
\* 36.0 for trusting: in the record update_manager_aggregation_saas stores,
\* in the record aggregate_manager_scores returns, and (the category
\* average only, 36 over 1 response) in the record
\* update_manager_aggregation stores.
C21_TrustingMaximumScenario ==
  /\ \A k \in 1..Len(managers) :
       OnlyTrustingMaximum(WriterKind(k), written[k].src.read) =>
         IF WriterKind(k) = "saas"
         THEN written[k].src.agg.total_assessments = 1
                => TrustingAtMaximum(managers[k])
         ELSE /\ managers[k].category_totals["trusting"] = 36
              /\ managers[k].category_averages["trusting"]
                   = [num |-> 36, den |-> 1]
  /\ (BatchAggregated /\ OnlyTrustingMaximum("batch", batch_result.read))
       => TrustingAtMaximum(batch_result.returned)

\* both aggregators have aggregated such a manager
C21_TrustingMaximumAggregated ==
  /\ \E k \in 1..Len(managers) :
       /\ WriterKind(k) = "saas"
       /\ OnlyTrustingMaximum("saas", written[k].src.read)
       /\ written[k].src.agg.total_assessments = 1
       /\ managers[k].total_assessments = 1
       /\ TrustingAtMaximum(managers[k])
       /\ managers[k].category_averages["tasking"] = 0
  /\ BatchAggregated
  /\ OnlyTrustingMaximum("batch", batch_result.read)
  /\ batch_result.returned.total_assessments = 1
  /\ TrustingAtMaximum(batch_result.returned)

(***************************************************************************)
(* C22: normalize_name                                                     *)
(***************************************************************************)
\* a str without a blank at its start or end and without two blanks in a row
SingleSpaced(t) ==
  /\ t # <<>> => (t[1] # SP /\ t[Len(t)] # SP)
  /\ \A i \in 1..(Len(t) - 1) : ~(t[i] = SP /\ t[i + 1] = SP)

\* C22: normalize_name applied to what it returned returns the same str, for
\* every name of blanks and words of mixed case; what it returns has no
\* blank at its start or end and no two blanks in a row; "" and None give "".
C22_NormalizeNameIdempotent ==
  (scored # NotCalled /\ payload.path = "name") =>
    /\ scored.again = scored.result
    /\ SingleSpaced(scored.result)
    /\ (~payload.given \/ payload.name = EmptyText) =>
         scored.result = EmptyText

\* a name with blanks before and between two words of mixed case has been
\* normalized
C22_SpacedNameNormalized ==
  /\ scored # NotCalled
  /\ payload.path = "name"
  /\ payload.name = <<SP, "ANN", SP, SP, "mcKay">>
  /\ scored.result = <<"Ann", SP, "Mckay">>
  /\ scored.again = <<"Ann", SP, "Mckay">>

(***************************************************************************)
(* C23: get_subcategory_remark                                             *)
(***************************************************************************)
Bands == {"red", "amber", "green"}

\* the tripod a call names: the one given, in lower case, or, when none is
\* given, the tripod of the behavior
NamedTripod(tripod, behavior) ==
  IF tripod = "trusting" \/ tripod = "Trusting" THEN "trusting"
  ELSE IF tripod = "tasking" \/ tripod = "TASKING" THEN "tasking"
  ELSE IF tripod # "" THEN tripod
  ELSE IF \E c \in CategorySet : behavior \in Range(SUBCATEGORY_ORDER(c))
       THEN CHOOSE c \in CategorySet : behavior \in Range(SUBCATEGORY_ORDER(c))
       ELSE ""

\* the (category, subcategory) pair is one of the twelve of the catalog
CatalogPair(tripod, behavior) ==
  /\ tripod \in CategorySet
  /\ behavior \in Range(SUBCATEGORY_ORDER(tripod))

\* SUBCATEGORY_REMARKS holds a text for each band of each of the twelve
\* pairs, and for no other behavior
RemarksOfTheCatalog ==
  /\ \A tripod \in CategorySet :
       /\ DOMAIN SUBCATEGORY_REMARKS(tripod) = Range(SUBCATEGORY_ORDER(tripod))
       /\ \A behavior \in Range(SUBCATEGORY_ORDER(tripod)) :
            /\ DOMAIN SUBCATEGORY_REMARKS(tripod)[behavior] = Bands
            /\ \A band \in Bands :
                 SUBCATEGORY_REMARKS(tripod)[behavior][band] # EmptyText
  /\ Cardinality({<<tripod, behavior>> \in CategorySet \X AllBehaviors :
                    CatalogPair(tripod, behavior)}) = 12

\* C23: get_subcategory_remark returns a record for every pair: its band is
\* that of the score, its remark is "" when the pair it names is none of the
\* twelve of the catalog, and the text the catalog holds for the pair and the
\* band, never "", when it is one.
C23_UnknownPairEmptyRemark ==
  /\ RemarksOfTheCatalog
  /\ (scored # NotCalled /\ payload.path = "remark") =>
       LET tripod == NamedTripod(payload.tripod, payload.behavior)
       IN  /\ scored.result.band = BandOf(payload.score)
           /\ scored.result.behavior = payload.behavior
           /\ IF CatalogPair(tripod, payload.behavior)
              THEN /\ scored.result.remark
                        = SUBCATEGORY_REMARKS(tripod)[payload.behavior]
                                             [BandOf(payload.score)]
                   /\ scored.result.remark # EmptyText
              ELSE scored.result.remark = EmptyText

\* a remark has been asked for a behavior the catalog has, under a tripod
\* that does not hold it, with a score on a threshold
C23_UnknownPairAsked ==
  /\ scored # NotCalled
  /\ payload.path = "remark"
  /\ payload.behavior = "Prioritising Tasks"
  /\ payload.tripod = "trusting"
  /\ payload.score = 800
  /\ scored.result.band = "green"
  /\ scored.result.remark = EmptyText

(***************************************************************************)
(* C24: the aggregation task of a submission                               *)
(***************************************************************************)
\* this step, a handler schedules a background task
Schedules ==
  /\ Len(tasks') = Len(tasks) + 1
  /\ tasks'[Len(tasks')].origin = "background"

\* the stored responses of the identity of a run, after this step
StoredFor(task) ==
  IF task.kind = "legacy"
  THEN ByManager(raw_responses', task.manager_name)
  ELSE ByCompanyManager(assessments', task.company_id, task.manager_name)

\* this step, the handler of request r returns 200 having stored a response
\* of the identity of the new task
ReturnsHavingStored(r) ==
  LET task == tasks'[Len(tasks')]
  IN  /\ requests'[r] = Done(IF task.kind = "legacy" THEN "webhook"
                             ELSE "submit", 200)
      /\ IF task.kind = "legacy"
         THEN /\ r = Len(requests')
              /\ raw_responses' # <<>>
              /\ raw_responses'[Len(raw_responses')].manager_name
                   = task.manager_name
         ELSE /\ requests[r].pc = "track"
              /\ assessments' = assessments
              /\ \E i \in 1..Len(assessments) :
                   /\ assessments[i].id = Uuid("response", r)
                   /\ assessments[i].company_id = task.company_id
                   /\ assessments[i].manager_name = task.manager_name

\* C24: a handler schedules the aggregation task of a submission in the step
\* in which it returns, the response of the submission being stored, and
\* the task has not run by then; no step removes a stored response or
\* changes the identity it is stored under; so a scheduled run that reads
\* the responses of its identity finds all that are stored, at least one.
C24_TaskScheduledAfterInsert ==
  /\ [](\A t \in 1..Len(tasks) :
          tasks[t].origin = "background" =>
            /\ tasks[t].ret \notin {"None", "no action"}
            /\ "read" \in DOMAIN tasks[t].loc => tasks[t].loc.read # <<>>
            /\ "agg" \in DOMAIN tasks[t].loc =>
                 tasks[t].loc.agg.total_assessments >= 1)
  /\ [][/\ Schedules =>
             /\ tasks'[Len(tasks')].pc = "start"
             /\ \E r \in 1..Len(requests') : ReturnsHavingStored(r)
        /\ \A i \in 1..Len(raw_responses) :
             /\ i <= Len(raw_responses')
             /\ raw_responses'[i].manager_name = raw_responses[i].manager_name
        /\ \A i \in 1..Len(assessments) :
             /\ i <= Len(assessments')
             /\ assessments'[i].manager_name = assessments[i].manager_name
             /\ assessments'[i].company_id = assessments[i].company_id
        /\ \A t \in 1..Len(tasks) :
             (tasks[t].origin = "background" /\ tasks[t].pc = "start"
                /\ tasks'[t].pc # "start")
               => StoredFor(tasks[t]) # <<>>]_vars

\* both handlers have returned, the run of one submission has persisted its
\* aggregate and the run of the other has not started
C24_HandlerReturnedBeforeRun ==
  /\ \A r \in 1..Len(requests) : requests[r] \in {Done("submit", 200),
                                                  Done("webhook", 200)}
  /\ \E t, u \in 1..Len(tasks) :
       /\ tasks[t].origin = "background" /\ tasks[t].pc = "start"
       /\ tasks[u].origin = "background" /\ tasks[u].pc = "done"
       /\ tasks[u].ret \in {"persisted", "aggregated"}
  /\ raw_responses # <<>>
  /\ assessments # <<>>

(***************************************************************************)
(* C25: the record of update_manager_aggregation_saas under inserts        *)
(***************************************************************************)
\* sum of the subcategory totals of a record over the four subcategories of
\* a category
SubcategoryTotalSum(record, category) ==
  SumSeq([i \in 1..Len(SUBCATEGORY_ORDER(category)) |->
            record.subcategory_totals[SUBCATEGORY_ORDER(category)[i]]])

\* C25: every record update_manager_aggregation_saas has stored is derived
\* from one set of responses: total_assessments is the number of entries of
\* assessment_summaries, each category total is the sum of the totals of its
\* four subcategories, every subcategory average lies in 0..9 and every
\* category average in 0..36.
C25_AggregateFromOneSetOfResponses ==
  \A k \in 1..Len(managers) :
    WriterKind(k) = "saas" =>
      /\ managers[k].total_assessments = Len(managers[k].assessment_summaries)
      /\ \A category \in CategorySet :
           /\ managers[k].category_totals[category]
                = SubcategoryTotalSum(managers[k], category)
           /\ managers[k].category_averages[category] \in 0..3600
      /\ \A behavior \in AllBehaviors :
           managers[k].subcategory_averages[behavior] \in 0..900

(***************************************************************************)
(* C26: one aggregate record per manager                                   *)
(***************************************************************************)
\* every run has finished, not one by a failure of the storage
AllRunsFinished ==
  /\ \A r \in 1..Len(requests) : requests[r].pc = "done"
  /\ \A t \in 1..Len(tasks) : tasks[t].pc = "done"

\* two runs for the identity of record k found no record, and one of them
\* had its insert refused
InsertRefused(k) ==
  \E t \in 1..Len(tasks) :
    /\ tasks[t].kind = "saas"
    /\ tasks[t].ret = "swallowed"
    /\ tasks[t].company_id = managers[k].company_id
    /\ tasks[t].manager_name = managers[k].manager_name

\* C26: the manager collection never holds two records of one company and
\* manager name; and when two runs for a manager without a record both
\* looked for the record before either inserted it, the record that is left
\* when the runs have finished counts every stored response of the manager.
C26_OneRecordReflectingAllResponses ==
  /\ \A k, l \in 1..Len(managers) :
       (/\ Get(managers[k], "company_id", NoneValue)
             = Get(managers[l], "company_id", NoneValue)
        /\ managers[k].manager_name = managers[l].manager_name) => k = l
  /\ AllRunsFinished =>
       \A k \in 1..Len(managers) :
         (WriterKind(k) = "saas" /\ InsertRefused(k)) =>
           /\ managers[k].total_assessments = StoredCount(k)
           /\ Len(managers[k].assessment_summaries) = StoredCount(k)

(***************************************************************************)
(* C27: one stored assessment per session                                  *)
(***************************************************************************)
\* this step, request r is turned away: 400 by the duplicate check of the
\* handler, 500 by the DuplicateKeyError of the insert
TurnedAway(r) ==
  /\ requests'[r].pc = "done"
  /\ requests'[r].status \in {400, 500}
  /\ assessments' = assessments

\* C27: no two stored assessments share a session_id, within a company or
\* across companies; a submission whose session_id is that of a stored
\* assessment is turned away without a record, by the check of the handler
\* or, when another submission with the session_id was stored after the
\* check, by the insert.
C27_OneAssessmentPerSession ==
  /\ [](\A i, j \in 1..Len(assessments) :
          assessments[i].session_id = assessments[j].session_id => i = j)
  /\ [][/\ \A r \in 1..Len(requests) :
             (/\ requests[r].pc = "insert"
              /\ requests'[r] # requests[r]
              /\ \E i \in 1..Len(assessments) :
                   assessments[i].session_id = requests[r].session_id)
               => TurnedAway(r)
        /\ \A slug \in CompanySlugs :
             (/\ Len(requests') = Len(requests) + 1
              /\ requests'[Len(requests')].kind = "submit"
              /\ "session_id" \in DOMAIN requests'[Len(requests')]
              /\ requests'[Len(requests')].company_slug = slug)
               => \A i \in 1..Len(assessments) :
                    assessments[i].company_id = CompanyId(slug) =>
                      assessments[i].session_id
                        # requests'[Len(requests')].session_id]_vars

\* of two submissions with one session_id that both passed the check of the
\* handler, one is stored and the other was refused by the insert
C27_ConcurrentDuplicateRefused ==
  \E r, s \in 1..Len(requests) :
    /\ r # s
    /\ requests[r] = Done("submit", 200)
    /\ requests[s] = Done("submit", 500)
    /\ Len(assessments) = 1

(***************************************************************************)
(* C28: the totals of process_form_answers                                 *)
(***************************************************************************)
\* sum of the scores per_question_scores records for the questions of a
\* category
RecordedScoreSum(result, category) ==
  SumSet({code \in DOMAIN result.per_question_scores :
            result.per_question_scores[code].category = category},
         [code \in DOMAIN result.per_question_scores |->
            result.per_question_scores[code].score])

\* C28: in what process_form_answers returns for any answer map, each
\* category total is the sum of the totals of the four subcategories of the
\* category and the sum of the scores recorded in per_question_scores for
\* its questions; overall_score is the sum of the three category totals;
\* answered_questions is the number of entries of per_question_scores and,
\* with the number of missing questions, makes 36.
C28_TotalsAgreeWithRecordedScores ==
  (scored # NotCalled /\ payload.path = "form") =>
    /\ \A category \in CategorySet :
         /\ scored.result.category_totals[category]
              = SubcategoryTotalSum(scored.result, category)
         /\ scored.result.category_totals[category]
              = RecordedScoreSum(scored.result, category)
    /\ scored.result.overall_score
         = SumSeq([i \in 1..Len(Categories) |->
                     scored.result.category_totals[Categories[i]]])
    /\ scored.result.meta.answered_questions
         = Cardinality(DOMAIN scored.result.per_question_scores)
    /\ scored.result.meta.answered_questions
         + Len(scored.result.meta.missing_questions) = 36

(***************************************************************************)
(* C29: the two scorers on one mapping                                     *)
(***************************************************************************)
\* C29: for one mapping from question codes of the catalog to options,
\* process_form_answers and the scorer of submit_assessment return equal
\* category totals, equal subcategory totals and equal subcategory averages;
\* and the two catalogs give each question the same category, subcategory,
\* type and score of each option.
C29_ScorersAgree ==
  /\ \A category \in CategorySet :
       \A q \in Range(ASSESSMENT_QUESTIONS(category)) :
         /\ q.id \in SchemaCodeSet
         /\ QUESTION_SCHEMA(q.id).category = category
         /\ QUESTION_SCHEMA(q.id).behavior = q.behavior
         /\ QUESTION_SCHEMA(q.id).type = q.type
         /\ \A option \in Options :
              SCORE_MAP(q.type)[option] = q.scores[option]
  /\ SchemaCodeSet
       = {q.id : q \in UNION {Range(ASSESSMENT_QUESTIONS(c)) : c \in CategorySet}}
  /\ (scored # NotCalled /\ payload.path = "both") =>
       /\ scored.form.category_totals = scored.web.category_scores
       /\ scored.form.subcategory_totals = scored.web.subcategory_scores
       /\ scored.form.subcategory_averages = scored.web.subcategory_averages

\* both scorers have scored a mapping that answers the whole catalog, a
\* reverse question with Never, a direct one with Sometimes
C29_FullMappingScoredTwice ==
  /\ scored # NotCalled
  /\ payload.path = "both"
  /\ Len(payload.mapping) = 36
  /\ \E i, j \in 1..Len(payload.mapping) :
       /\ payload.mapping[i] = <<"STR_3", "Never">>
       /\ payload.mapping[j] = <<"STR_1", "Sometimes">>
  /\ scored.web.category_scores["trusting"] = 35
  /\ scored.form.category_totals["trusting"] = 35
  /\ scored.form.subcategory_averages["Honesty, Dependability & Fairness"] = 800

(***************************************************************************)
(* C30: submissions that are turned away                                   *)
(***************************************************************************)
\* the statuses of a submission that is turned away: no manager name or a
\* duplicate session (400), a wrong secret (401), a link token that is
\* missing, wrong or expired (403), an unknown company (404), no manager
\* name in a Google form or an insert refused as a duplicate (500)
Refusals == {400, 401, 403, 404, 500}

\* this step, the handler of request r returns a refusal
Refuses(r) ==
  /\ r <= Len(requests')
  /\ requests'[r].kind \in {"submit", "webhook"}
  /\ requests'[r].pc = "done"
  /\ requests'[r].status \in Refusals
  /\ r <= Len(requests) => requests[r].pc # "done"

\* the requests of a kind that returned 200
Accepted(kind) ==
  {r \in 1..Len(requests) : requests[r] = Done(kind, 200)}

\* the requests to submit_assessment that have stored their response and
\* not yet returned
Tracking == {r \in 1..Len(requests) : requests[r].pc = "track"}

====
